---------------------------- MODULE Spec2Model ----------------------------
(***************************************************************************)
(* Model of the money-muling detection engine: the transaction graph, the  *)
(* pattern detectors (cycles, smurfing, shell chains), the suspicion       *)
(* scorer with the merchant/payroll whitelist, the ring constructor, the   *)
(* response builder and the alert engine.                                   *)
(*                                                                         *)
(* Conventions of the model                                                *)
(*  - account ids are naturals; their order is the lexicographic order of  *)
(*    the zero-padded ids of the program (ACC_001 < ACC_002 ...);          *)
(*  - timestamps are whole hours since an epoch;                           *)
(*  - scores are exact fixed-point numbers in tenths of a point (400 is    *)
(*    40.0): every product the scorer forms (x(1+0.1r), x0.5, x0.7) of a   *)
(*    base score, which is a multiple of 10, is a whole number of tenths;  *)
(*  - a ring's raw risk score, a mean, is the pair (sum, count);           *)
(*  - a transaction's id is its position in the batch.                     *)
(***************************************************************************)
EXTENDS Integers, Sequences, FiniteSets, TLC

VARIABLES
    transaction_graph,   \* main.py: the TransactionGraph, <<>> while there is none
    ingested,            \* the batches handed to the TransactionGraph, in order
    node_metrics,        \* TransactionGraph._node_metrics
    upload_response,     \* request and status of the last upload call
    detection_strategy,  \* main.py: detection_strategy
    strategy_response,   \* request and status of the last set-strategy call
    monitoring_mode,     \* main.py: monitoring_mode
    transactions_df,     \* main.py: the validated batch, <<>> while none is uploaded
    fraud_detection_results, \* main.py: raw results of the last detect-fraud run
    formatted_results,   \* main.py: canonical response of the last run
    detector,            \* the FraudDetectionEngine of the last run (its fields)
    risk_intelligence_data, \* main.py: the records of the risk engine, last run
    detect_response,     \* status of the last detect-fraud call
    alerts,              \* AlertEngine.alerts, most recent first
    previous_state,      \* AlertEngine.previous_state
    last_call,           \* arguments and result of the last analyze call
    calls,               \* number of analyze calls made on the alert engine
    clock,               \* the last reading of datetime.now() by an alert
    engine_call          \* method, arguments and result of the last call made
                         \* on a FraudDetectionEngine of its own

vars == <<transaction_graph, ingested, node_metrics, upload_response, detection_strategy,
          strategy_response, monitoring_mode, transactions_df,
          fraud_detection_results, formatted_results, detector,
          risk_intelligence_data, detect_response, alerts, previous_state,
          last_call, calls, clock, engine_call>>

graph_vars == <<transaction_graph, ingested, node_metrics>>

strategy_vars == <<detection_strategy, strategy_response, monitoring_mode>>

results_vars == <<fraud_detection_results, formatted_results, detector,
                  risk_intelligence_data, detect_response>>

pipeline_vars == <<graph_vars, upload_response, strategy_vars, transactions_df,
                   results_vars, engine_call>>

alert_vars == <<alerts, previous_state, last_call, calls, clock>>

---------------------------------------------------------------------------
(* Generic helpers *)

Range(seq) == {seq[i] : i \in DOMAIN seq}

Max(a, b) == IF a >= b THEN a ELSE b

Min(a, b) == IF a <= b THEN a ELSE b

RECURSIVE SumSeq(_)
SumSeq(seq) == IF seq = <<>> THEN 0 ELSE Head(seq) + SumSeq(Tail(seq))

\* The elements of seq in order of first appearance (pandas .unique(), dict keys).
Unique(seq) ==
    LET firsts == {i \in DOMAIN seq : \A j \in 1..(i - 1) : seq[j] # seq[i]}
        rank(i) == Cardinality({j \in firsts : j <= i})
    IN [k \in 1..Cardinality(firsts) |->
          seq[CHOOSE i \in firsts : rank(i) = k]]

\* The members of a finite set of naturals in ascending order (sorted()).
SortedSeq(S) ==
    [k \in 1..Cardinality(S) |->
        CHOOSE x \in S : Cardinality({y \in S : y <= x}) = k]

\* A sequence of numbers sorted ascending (sorted(), stable).
SortNums(seq) ==
    LET place(i) == Cardinality({j \in DOMAIN seq :
                        seq[j] < seq[i] \/ (seq[j] = seq[i] /\ j <= i)})
    IN [k \in DOMAIN seq |-> seq[CHOOSE i \in DOMAIN seq : place(i) = k]]

---------------------------------------------------------------------------
(* graph_builder.py: the transaction graph of a batch *)

\* build_from_dataframe: the nodes, in insertion order
\* (pd.concat([sender_id, receiver_id]).unique()).
Nodes(df) ==
    Unique([i \in 1..(2 * Len(df)) |->
              IF i <= Len(df) THEN df[i].s ELSE df[i - Len(df)].r])

NodeSet(df) == {df[i].s : i \in DOMAIN df} \cup {df[i].r : i \in DOMAIN df}

\* The aggregated edges (sender, receiver).
Edges(df) == {<<df[i].s, df[i].r>> : i \in DOMAIN df}

\* graph.successors(u): the receivers of u in the order their edge was first added.
Successors(df, u) ==
    Unique([j \in 1..Cardinality({i \in DOMAIN df : df[i].s = u}) |->
        LET rows == SortedSeq({i \in DOMAIN df : df[i].s = u})
        IN df[rows[j]].r])

\* TransactionGraph.__init__: the empty graph.  nodes is the node list in
\* insertion order, edges maps every edge (source, target) to its attributes.
EmptyGraph == [nodes |-> <<>>, edges |-> [e \in {} |-> 0]]

\* An edge update that starts the attributes of an existing edge afresh.
add_edge_overwriting(graph, row) ==
    [nodes |-> graph.nodes,
     edges |-> [e \in DOMAIN graph.edges \cup {<<row.s, row.r>>} |->
                  IF e = <<row.s, row.r>>
                  THEN [amount |-> row.amount, timestamps |-> <<row.ts>>,
                        transaction_count |-> 1]
                  ELSE graph.edges[e]]]

\* build_from_dataframe and add_transactions: one pass of the edge loop; an
\* existing edge accumulates, a new one is added.
add_edge(graph, row) ==
    [nodes |-> graph.nodes,
     edges |-> [e \in DOMAIN graph.edges \cup {<<row.s, row.r>>} |->
                  IF e # <<row.s, row.r>> THEN graph.edges[e]
                  ELSE IF e \in DOMAIN graph.edges
                  THEN [amount |-> graph.edges[e].amount + row.amount,
                        timestamps |-> Append(graph.edges[e].timestamps, row.ts),
                        transaction_count |-> graph.edges[e].transaction_count + 1]
                  ELSE [amount |-> row.amount, timestamps |-> <<row.ts>>,
                        transaction_count |-> 1]]]

\* The edge loop over the rows of a batch.
RECURSIVE add_edges(_, _)
add_edges(graph, rows) ==
    IF rows = <<>> THEN graph
    ELSE add_edges(add_edge(graph, Head(rows)), Tail(rows))

\* add_nodes_from: the accounts of a batch not yet in the graph are appended.
add_nodes_from(graph, df) ==
    [nodes |-> graph.nodes
               \o SelectSeq(Nodes(df), LAMBDA a : a \notin Range(graph.nodes)),
     edges |-> graph.edges]

\* TransactionGraph.build_from_dataframe on a new graph (nodes and edges).
build_from_dataframe(df) == add_edges(add_nodes_from(EmptyGraph, df), df)

\* TransactionGraph.add_transactions (nodes and edges).
add_transactions(graph, new_df) == add_edges(add_nodes_from(graph, new_df), new_df)

\* self.graph.in_degree(account) and self.graph.out_degree(account).
graph_in_degree(graph, account) ==
    Cardinality({e \in DOMAIN graph.edges : e[2] = account})

graph_out_degree(graph, account) ==
    Cardinality({e \in DOMAIN graph.edges : e[1] = account})

\* groupby(column).agg(sum, count) of the rows of df, read for one account:
\* the amounts of its rows as sender or as receiver.
SentAmounts(df, account) ==
    LET rows == SelectSeq(df, LAMBDA row : row.s = account)
    IN [i \in DOMAIN rows |-> rows[i].amount]

ReceivedAmounts(df, account) ==
    LET rows == SelectSeq(df, LAMBDA row : row.r = account)
    IN [i \in DOMAIN rows |-> rows[i].amount]

\* _calculate_node_metrics: the record of every node of the graph, from the
\* rows of df.
calculate_node_metrics(graph, df) ==
    [account \in Range(graph.nodes) |->
        LET sent == SentAmounts(df, account)
            received == ReceivedAmounts(df, account)
        IN [in_degree |-> graph_in_degree(graph, account),
            out_degree |-> graph_out_degree(graph, account),
            total_transactions |-> Len(sent) + Len(received),
            total_amount_sent |-> SumSeq(sent),
            total_amount_received |-> SumSeq(received),
            net_flow |-> SumSeq(received) - SumSeq(sent)]]

\* _update_node_metrics: the record of every affected account is replaced
\* by one made from the rows of df, the frame add_transactions hands over.
update_node_metrics(metrics, graph, df, affected_accounts) ==
    [account \in DOMAIN metrics \cup affected_accounts |->
        IF account \notin affected_accounts THEN metrics[account]
        ELSE LET sent == SentAmounts(df, account)
                 received == ReceivedAmounts(df, account)
             IN [in_degree |-> graph_in_degree(graph, account),
                 out_degree |-> graph_out_degree(graph, account),
                 total_transactions |-> Len(sent) + Len(received),
                 total_sent |-> SumSeq(sent),
                 total_received |-> SumSeq(received),
                 net_flow |-> SumSeq(received) - SumSeq(sent)]]

\* metrics.get(key, 0)
MetricOr0(metrics, key) == IF key \in DOMAIN metrics THEN metrics[key] ELSE 0

\* get_all_nodes_with_metrics: one record per node, in node order.
get_all_nodes_with_metrics(graph, metrics) ==
    [k \in DOMAIN graph.nodes |->
        LET node_id == graph.nodes[k]
            record == IF node_id \in DOMAIN metrics THEN metrics[node_id]
                      ELSE [key \in {} |-> 0]
        IN [id |-> node_id,
            in_degree |-> MetricOr0(record, "in_degree"),
            out_degree |-> MetricOr0(record, "out_degree"),
            total_transactions |-> MetricOr0(record, "total_transactions"),
            total_amount_sent |-> MetricOr0(record, "total_amount_sent"),
            total_amount_received |-> MetricOr0(record, "total_amount_received"),
            net_flow |-> MetricOr0(record, "net_flow")]]

\* _precompute_metrics: the degree maps (a self-loop counts in both).
in_degree(df, a) == Cardinality({e \in Edges(df) : e[2] = a})

out_degree(df, a) == Cardinality({e \in Edges(df) : e[1] = a})

total_degree(df, a) == in_degree(df, a) + out_degree(df, a)

\* df_sorted: the rows sorted by timestamp.  Rows of equal timestamp keep the
\* batch order here; sort_values promises no order among them, and in the
\* batches of the model every row of a group that reaches the smurfing
\* threshold lies in the window of the group's first row whatever that order.
df_sorted(df) ==
    LET key(i) == df[i].ts * (Len(df) + 1) + i
        keys == SortedSeq({key(i) : i \in DOMAIN df})
    IN [j \in DOMAIN df |-> df[keys[j] % (Len(df) + 1)]]


---------------------------------------------------------------------------
(* detection.py: FraudDetectionEngine *)

MAX_CYCLES_LIMIT == 500

\* _identify_legitimate_accounts: volume_threshold.
volume_threshold(df) == Max(5, Min(8, Cardinality(NodeSet(df)) \div 10))

\* amounts.std() / max(amounts.mean(), 1) < 0.5 for a non-empty sequence of
\* amounts, with numpy's population standard deviation:
\* std < 0.5 * m  <=>  4 * (n * sum(x^2) - sum(x)^2) < (n * m)^2.
ConsistentAmounts(amounts) ==
    LET n == Len(amounts)
        sum == SumSeq(amounts)
        sumsq == SumSeq([i \in DOMAIN amounts |-> amounts[i] * amounts[i]])
        nm == Max(sum, n)
    IN 4 * (n * sumsq - sum * sum) < nm * nm

\* The merchant heuristic of _identify_legitimate_accounts.
IsMerchant(df, account) ==
    LET received == SelectSeq(df, LAMBDA t : t.r = account)
        unique_senders == Cardinality({received[i].s : i \in DOMAIN received})
    IN /\ in_degree(df, account) >= volume_threshold(df)
       /\ out_degree(df, account) <= 2
       /\ Len(received) >= volume_threshold(df)
       /\ unique_senders >= volume_threshold(df)

\* The payroll heuristic of _identify_legitimate_accounts.
IsPayroll(df, account) ==
    LET sent == SelectSeq(df, LAMBDA t : t.s = account)
        unique_receivers == Cardinality({sent[i].r : i \in DOMAIN sent})
    IN /\ out_degree(df, account) >= volume_threshold(df)
       /\ in_degree(df, account) <= 2
       /\ Len(sent) >= volume_threshold(df)
       /\ unique_receivers >= volume_threshold(df)
       /\ ConsistentAmounts([i \in DOMAIN sent |-> sent[i].amount])

\* _identify_legitimate_accounts: self.whitelisted_accounts.
whitelisted_accounts(df) ==
    {a \in NodeSet(df) : IsMerchant(df, a) \/ IsPayroll(df, a)}

\* networkx.simple_cycles: every elementary cycle of the graph exactly once
\* (self-loops and 2-cycles included), here written from its least account.
\* The order in which the library yields them is not part of this set: it
\* follows the iteration order of hashed sets, and is an input of detect_cycles.
CycleExtend(df, s, P) ==
    UNION {{Append(p, v) : v \in {w \in NodeSet(df) :
                /\ <<p[Len(p)], w>> \in Edges(df)
                /\ w > s
                /\ w \notin Range(p)}} : p \in P}

RECURSIVE CyclePaths(_, _, _)
CyclePaths(df, s, P) ==
    IF P = {} THEN {} ELSE P \cup CyclePaths(df, s, CycleExtend(df, s, P))

simple_cycles(df) ==
    UNION {{p \in CyclePaths(df, s, {<<s>>}) : <<p[Len(p)], s>> \in Edges(df)}
           : s \in NodeSet(df)}

\* The orders in which an iterator can yield the members of a set.
RECURSIVE Enumerations(_)
Enumerations(S) ==
    IF S = {} THEN {<<>>}
    ELSE UNION {{<<x>> \o p : p \in Enumerations(S \ {x})} : x \in S}

\* An iteration that never looks at the number of cycles detected.
cycle_step_unlimited(loop, cycle, min_length, max_length) ==
    IF loop.broken THEN loop
    ELSE IF loop.budget = 0 THEN [loop EXCEPT !.broken = TRUE]
    ELSE [detected |-> IF min_length <= Len(cycle) /\ Len(cycle) <= max_length
                       THEN Append(loop.detected, cycle) ELSE loop.detected,
          budget |-> loop.budget - 1,
          broken |-> FALSE]

\* One iteration of the loop of detect_cycles.  loop holds the cycles
\* detected so far, budget, the number of iterations that still start before
\* the wall clock passes CYCLE_ENUMERATION_TIMEOUT, and broken, whether the
\* loop has taken a break.
CycleStep(loop, cycle, min_length, max_length) ==
    IF loop.broken THEN loop
    ELSE IF loop.budget = 0 THEN [loop EXCEPT !.broken = TRUE]
    ELSE IF Len(loop.detected) >= MAX_CYCLES_LIMIT
    THEN [loop EXCEPT !.broken = TRUE]
    ELSE [detected |-> IF min_length <= Len(cycle) /\ Len(cycle) <= max_length
                       THEN Append(loop.detected, cycle) ELSE loop.detected,
          budget |-> loop.budget - 1,
          broken |-> FALSE]

\* The iterations first..last of the loop, in order.
RECURSIVE CycleSteps(_, _, _, _, _, _)
CycleSteps(all_cycles, first, last, loop, min_length, max_length) ==
    IF first > last THEN loop
    ELSE IF first = last
    THEN CycleStep(loop, all_cycles[first], min_length, max_length)
    ELSE LET middle == (first + last) \div 2
             half == CycleSteps(all_cycles, first, middle, loop,
                                min_length, max_length)
         IN IF half.broken THEN half
            ELSE CycleSteps(all_cycles, middle + 1, last, half,
                            min_length, max_length)

\* The loop of detect_cycles over the cycles the library yields: all_cycles is
\* what is left to iterate, budget the number of iterations that start before
\* the wall clock passes CYCLE_ENUMERATION_TIMEOUT.
CycleLoop(all_cycles, budget, detected, min_length, max_length) ==
    CycleSteps(all_cycles, 1, Len(all_cycles),
               [detected |-> detected, budget |-> budget, broken |-> FALSE],
               min_length, max_length).detected

\* detect_cycles without the lower length bound.
detect_cycles_any_length(all_cycles, budget, min_length, max_length) ==
    CycleLoop(all_cycles, budget, <<>>, 1, max_length)

detect_cycles(all_cycles, budget, min_length, max_length) ==
    CycleLoop(all_cycles, budget, <<>>, min_length, max_length)

\* detect_smurfing_patterns: the adaptive threshold.
adaptive_threshold(df) ==
    LET num_accounts == Cardinality(NodeSet(df))
    IN IF num_accounts < 50 THEN 5
       ELSE IF num_accounts < 200 THEN 7
       ELSE 10

\* The rows j >= i of a group inside the window that starts at row i.
WindowRows(txs, i, time_window) ==
    {j \in i..Len(txs) : \A k \in i..j : txs[k].ts <= txs[i].ts + time_window}

\* A fan-in search that reports the last window with enough senders.
fan_in_of_last_window(sorted, receiver, threshold, time_window) ==
    LET txs == SelectSeq(sorted, LAMBDA t : t.r = receiver)
        senders_in_window(i) == {txs[j].s : j \in WindowRows(txs, i, time_window)}
        hits == {i \in DOMAIN txs : Cardinality(senders_in_window(i)) >= threshold}
    IN IF Len(txs) < threshold \/ hits = {} THEN <<>>
       ELSE LET i == CHOOSE x \in hits : \A y \in hits : x >= y
                rows == WindowRows(txs, i, time_window)
            IN <<[receiver |-> receiver,
                  senders |-> senders_in_window(i),
                  count |-> Cardinality(senders_in_window(i)),
                  time_window |-> <<txs[i].ts, txs[i].ts + time_window>>,
                  total_amount |-> SumSeq([k \in 1..Cardinality(rows) |->
                                      txs[SortedSeq(rows)[k]].amount])]>>

\* Fan-in: the pattern of one receiver, as a sequence of zero or one pattern.
FanInOf(sorted, receiver, threshold, time_window) ==
    LET txs == SelectSeq(sorted, LAMBDA t : t.r = receiver)
        senders_in_window(i) == {txs[j].s : j \in WindowRows(txs, i, time_window)}
        hits == {i \in DOMAIN txs : Cardinality(senders_in_window(i)) >= threshold}
    IN IF Len(txs) < threshold \/ hits = {} THEN <<>>
       ELSE LET i == CHOOSE x \in hits : \A y \in hits : x <= y
                rows == WindowRows(txs, i, time_window)
            IN <<[receiver |-> receiver,
                  senders |-> senders_in_window(i),
                  count |-> Cardinality(senders_in_window(i)),
                  time_window |-> <<txs[i].ts, txs[i].ts + time_window>>,
                  total_amount |-> SumSeq([k \in 1..Cardinality(rows) |->
                                      txs[SortedSeq(rows)[k]].amount])]>>

\* Fan-out: the pattern of one sender.
FanOutOf(sorted, sender, threshold, time_window) ==
    LET txs == SelectSeq(sorted, LAMBDA t : t.s = sender)
        receivers_in_window(i) == {txs[j].r : j \in WindowRows(txs, i, time_window)}
        hits == {i \in DOMAIN txs : Cardinality(receivers_in_window(i)) >= threshold}
    IN IF Len(txs) < threshold \/ hits = {} THEN <<>>
       ELSE LET i == CHOOSE x \in hits : \A y \in hits : x <= y
                rows == WindowRows(txs, i, time_window)
            IN <<[sender |-> sender,
                  receivers |-> receivers_in_window(i),
                  count |-> Cardinality(receivers_in_window(i)),
                  time_window |-> <<txs[i].ts, txs[i].ts + time_window>>,
                  total_amount |-> SumSeq([k \in 1..Cardinality(rows) |->
                                      txs[SortedSeq(rows)[k]].amount])]>>

RECURSIVE Flatten(_)
Flatten(seqs) == IF seqs = <<>> THEN <<>> ELSE Head(seqs) \o Flatten(Tail(seqs))

\* detect_smurfing_patterns: the groups are visited in the order in which their
\* key first occurs in df_sorted.
detect_fanin(df, threshold, time_window_hours) ==
    LET sorted == df_sorted(df)
        receivers == Unique([i \in DOMAIN sorted |-> sorted[i].r])
    IN Flatten([k \in DOMAIN receivers |->
                  FanInOf(sorted, receivers[k], threshold, time_window_hours)])

detect_fanout(df, threshold, time_window_hours) ==
    LET sorted == df_sorted(df)
        senders == Unique([i \in DOMAIN sorted |-> sorted[i].s])
    IN Flatten([k \in DOMAIN senders |->
                  FanOutOf(sorted, senders[k], threshold, time_window_hours)])

\* detect_shell_chains: edge_timestamps, min(edge_timestamps[edge]).
EdgeTs(df, u, v) ==
    LET ts == {df[i].ts : i \in {j \in DOMAIN df : df[j].s = u /\ df[j].r = v}}
    IN CHOOSE x \in ts : \A y \in ts : x <= y

\* No timestamp yet (last_timestamp = None at the start node).
NoTs == -1

\* A validation that accepts every path.
chain_valid_always(deg, path, max_degree) == TRUE

\* detect_shell_chains: "Validate chain: intermediates should be low-degree".
ChainValid(deg, path, max_degree) ==
    \A i \in 2..(Len(path) - 1) : deg[path[i]] <= max_degree

\* detect_shell_chains: "Explore neighbors", the queue items one item adds.
ChainExpand(df, deg, item, max_degree) ==
    LET ok(neighbor) ==
            /\ neighbor \notin Range(item.path)
            /\ ~(Len(item.path) > 1 /\ deg[neighbor] > max_degree)
            /\ ~(item.last_ts # NoTs /\ EdgeTs(df, item.current, neighbor) < item.last_ts)
        next == SelectSeq(Successors(df, item.current), ok)
    IN [k \in DOMAIN next |->
          [current |-> next[k],
           path |-> Append(item.path, next[k]),
           last_ts |-> EdgeTs(df, item.current, next[k])]]

\* detect_shell_chains: the BFS from one start node ("while queue"); the
\* chains it appends to detected_chains, in order.
RECURSIVE ChainBfs(_, _, _, _, _)
ChainBfs(df, deg, queue, min_length, max_degree) ==
    IF queue = <<>> THEN <<>>
    ELSE LET item == Head(queue)
         IN IF Len(item.path) >= min_length /\ ChainValid(deg, item.path, max_degree)
            THEN <<item.path>> \o ChainBfs(df, deg, Tail(queue), min_length, max_degree)
            ELSE IF Len(item.path) >= min_length + 2
            THEN ChainBfs(df, deg, Tail(queue), min_length, max_degree)
            ELSE ChainBfs(df, deg, Tail(queue) \o ChainExpand(df, deg, item, max_degree),
                          min_length, max_degree)

\* detect_shell_chains: "for start_node in self.graph.nodes()".
ChainsFromNodes(df, deg, nodes, min_length, max_degree) ==
    Flatten([k \in DOMAIN nodes |->
        IF out_degree(df, nodes[k]) = 0 THEN <<>>
        ELSE ChainBfs(df, deg,
                 <<[current |-> nodes[k], path |-> <<nodes[k]>>, last_ts |-> NoTs]>>,
                 min_length, max_degree)])

\* _is_sublist: sublist occurs in mainlist as consecutive elements.
is_sublist(sublist, mainlist) ==
    \E i \in 0..(Len(mainlist) - Len(sublist)) :
        SubSeq(mainlist, i + 1, i + Len(sublist)) = sublist

\* detect_shell_chains: "Deduplicate chains (remove subchains)".
unique_chains(detected_chains) ==
    SelectSeq(detected_chains, LAMBDA chain :
        ~\E k \in DOMAIN detected_chains :
            chain # detected_chains[k] /\ is_sublist(chain, detected_chains[k]))

detect_shell_chains(df, min_length, max_degree) ==
    LET deg == [a \in NodeSet(df) |-> total_degree(df, a)]
    IN unique_chains(ChainsFromNodes(df, deg, Nodes(df), min_length, max_degree))

---------------------------------------------------------------------------
(* detection.py: calculate_suspicion_scores *)

\* The detected patterns of an engine, as calculate_suspicion_scores reads them:
\* det = [cycles, fanin, fanout, chains] (sequences, in detection order).

\* Steps 1-4: the additive base score of an account, in points.
BaseScore(det, account) ==
    40 * Cardinality({k \in DOMAIN det.cycles : account \in Range(det.cycles[k])})
    + 30 * Cardinality({k \in DOMAIN det.fanin : det.fanin[k].receiver = account})
    + 30 * Cardinality({k \in DOMAIN det.fanout : det.fanout[k].sender = account})
    + 20 * Cardinality({k \in DOMAIN det.chains :
              \E i \in 2..(Len(det.chains[k]) - 1) : det.chains[k][i] = account})

\* Steps 1-4: the pattern tags and factors the loops append for an account.
BasePatterns(det, account) ==
    {"cycle" : k \in {j \in DOMAIN det.cycles : account \in Range(det.cycles[j])}}
    \cup {"fan_in" : k \in {j \in DOMAIN det.fanin : det.fanin[j].receiver = account}}
    \cup {"fan_out" : k \in {j \in DOMAIN det.fanout : det.fanout[j].sender = account}}
    \cup {"shell_chain" : k \in {j \in DOMAIN det.chains :
              \E i \in 2..(Len(det.chains[j]) - 1) : det.chains[j][i] = account}}

BaseFactors(det, account) ==
    {"cycle_member" : k \in {j \in DOMAIN det.cycles : account \in Range(det.cycles[j])}}
    \cup {"fan_in_hub" : k \in {j \in DOMAIN det.fanin : det.fanin[j].receiver = account}}
    \cup {"fan_out_hub" : k \in {j \in DOMAIN det.fanout : det.fanout[j].sender = account}}
    \cup {"shell_intermediate" : k \in {j \in DOMAIN det.chains :
              \E i \in 2..(Len(det.chains[j]) - 1) : det.chains[j][i] = account}}

\* The timestamps of the transactions involving an account, ascending.
AccountTimestamps(df, account) ==
    LET txns == SelectSeq(df, LAMBDA t : t.s = account \/ t.r = account)
    IN SortNums([i \in DOMAIN txns |-> txns[i].ts])

\* Step 5: rapid_count, the consecutive transactions less than 24 hours apart.
rapid_count(timestamps) ==
    Cardinality({i \in 1..(Len(timestamps) - 1) :
                    timestamps[i + 1] - timestamps[i] < 24})

\* What steps 5 and 7 read of the transactions of each account: their number,
\* rapid_count and the hours between the first and the last.
AccountStats(df) ==
    [a \in NodeSet(df) |->
        LET timestamps == AccountTimestamps(df, a)
        IN [count |-> Len(timestamps),
            rapid_count |-> rapid_count(timestamps),
            span |-> timestamps[Len(timestamps)] - timestamps[1]]]

\* Step 5: whether the velocity multiplier applies to an account.
HasVelocity(stats, account) ==
    stats[account].count > 1 /\ stats[account].rapid_count >= 2

\* Step 5: the multiplier min(1 + rapid_count * 0.1, 2.0), in tenths.
velocity_multiplier(rapid) == Min(10 + rapid, 20)

\* Step 5: the score after the velocity multiplier, in tenths of a point.
ScoreAfterVelocity(stats, det, account) ==
    IF HasVelocity(stats, account)
    THEN BaseScore(det, account) * velocity_multiplier(stats[account].rapid_count)
    ELSE BaseScore(det, account) * 10

\* Step 6: smurfing_members.
smurfing_members(det) ==
    UNION {{det.fanin[k].receiver} \cup det.fanin[k].senders : k \in DOMAIN det.fanin}
    \cup UNION {{det.fanout[k].sender} \cup det.fanout[k].receivers : k \in DOMAIN det.fanout}

\* Step 6 without its zeroing branch.
whitelist_always_halved(score, is_smurfing_member) == Max(score \div 2, 300)

\* Step 6: the score of a whitelisted account that has a score entry
\* (max(score * 0.5, 30) for a smurfing member, 0 otherwise), in tenths.
WhitelistOverride(score, is_smurfing_member) ==
    IF is_smurfing_member THEN Max(score \div 2, 300) ELSE 0

\* Step 7: whether the spread-over-time penalty applies to an account.
SpreadOverTime(stats, account) ==
    /\ stats[account].count > 0
    /\ stats[account].span > 7 * 24
    /\ stats[account].count < 20

\* Step 7: score *= 0.7, in tenths.
SpreadPenalty(score) == (score * 7) \div 10

\* Step 8 without the cap.
score_uncapped(score) == score

\* Step 8: min(score, 100), in tenths.
CapScore(score) == Min(score, 1000)

\* Step 8: the risk level of a capped score.
RiskLevel(score) ==
    IF score >= 700 THEN "HIGH" ELSE IF score >= 400 THEN "MEDIUM" ELSE "LOW"

\* The accounts with an entry in the scores defaultdict when step 6 runs:
\* those a pattern loop or the velocity step touched.
ScoredBeforeWhitelist(stats, det) ==
    {a \in DOMAIN stats : BasePatterns(det, a) # {} \/ HasVelocity(stats, a)}

\* The accounts with an entry at the end: step 7 adds the penalised ones.
ScoredAccounts(stats, det, whitelisted) ==
    ScoredBeforeWhitelist(stats, det)
    \cup {a \in DOMAIN stats \ whitelisted : SpreadOverTime(stats, a)}

\* The final entry of one account.
ScoreEntry(stats, det, whitelisted, members, account) ==
    LET after_velocity == ScoreAfterVelocity(stats, det, account)
        member == account \in members
        zeroed == account \in whitelisted /\ ~member
        after_whitelist ==
            IF account \in whitelisted
            THEN WhitelistOverride(after_velocity, member)
            ELSE after_velocity
        after_spread ==
            IF account \notin whitelisted /\ SpreadOverTime(stats, account)
            THEN SpreadPenalty(after_whitelist)
            ELSE after_whitelist
        score == CapScore(after_spread)
    IN [score |-> score,
        factors |->
            IF zeroed THEN {"whitelisted_legitimate_account"}
            ELSE BaseFactors(det, account)
                 \cup (IF HasVelocity(stats, account) THEN {"velocity"} ELSE {})
                 \cup (IF account \in whitelisted
                       THEN {"whitelisted_but_smurfing_member"} ELSE {})
                 \cup (IF account \notin whitelisted /\ SpreadOverTime(stats, account)
                       THEN {"spread_over_time"} ELSE {}),
        patterns |-> IF zeroed THEN {} ELSE BasePatterns(det, account),
        risk_level |-> RiskLevel(score)]

\* calculate_suspicion_scores: self.suspicious_accounts.
calculate_suspicion_scores(stats, det, whitelisted) ==
    LET members == smurfing_members(det)
    IN [a \in ScoredAccounts(stats, det, whitelisted) |->
          ScoreEntry(stats, det, whitelisted, members, a)]

---------------------------------------------------------------------------
(* detection.py: construct_fraud_rings *)

\* self.suspicious_accounts.get(acc, {}).get('score', 0)
ScoreOf(scores, acc) == IF acc \in DOMAIN scores THEN scores[acc].score ELSE 0

\* A ring record whose ring_id is made from its members, not from the counter.
ring_named_by_members(ring_id, pattern_type, members, scores) ==
    [ring_id |-> 100 + members[1],
     pattern_type |-> pattern_type,
     member_accounts |-> members,
     member_count |-> Len(members),
     risk_sum |-> SumSeq([i \in DOMAIN members |->
                            IF members[i] \in DOMAIN scores
                            THEN scores[members[i]].score ELSE 0])]

\* One ring record; ring_id is the value of ring_id_counter (RING_%03d) and
\* risk_score, sum / len of the member scores, is kept as the pair
\* (risk_sum, member_count).
Ring(ring_id, pattern_type, members, scores) ==
    [ring_id |-> ring_id,
     pattern_type |-> pattern_type,
     member_accounts |-> members,
     member_count |-> Len(members),
     risk_sum |-> SumSeq([i \in DOMAIN members |-> ScoreOf(scores, members[i])])]

\* The rings in construction order: cycles, fan-in, fan-out, shell chains.
RingsInDetectionOrder(det, scores) ==
    LET nc == Len(det.cycles)
        ni == Len(det.fanin)
        no == Len(det.fanout)
        ns == Len(det.chains)
    IN [k \in 1..(nc + ni + no + ns) |->
          IF k <= nc THEN Ring(k, "cycle", det.cycles[k], scores)
          ELSE IF k <= nc + ni
          THEN Ring(k, "fan_in",
                    <<det.fanin[k - nc].receiver>>
                        \o SortedSeq(det.fanin[k - nc].senders), scores)
          ELSE IF k <= nc + ni + no
          THEN Ring(k, "fan_out",
                    <<det.fanout[k - nc - ni].sender>>
                        \o SortedSeq(det.fanout[k - nc - ni].receivers), scores)
          ELSE Ring(k, "shell_chain", det.chains[k - nc - ni - no], scores)]

\* a.risk_score >= b.risk_score, on the exact means.
RiskAtLeast(a, b) == a.risk_sum * b.member_count >= b.risk_sum * a.member_count

\* construct_fraud_rings without the final sort.
rings_left_unsorted(rings) == rings

\* rings.sort(key=risk_score, reverse=True): stable, highest first.
SortRingsByRisk(rings) ==
    LET before(j, i) == IF j <= i THEN RiskAtLeast(rings[j], rings[i])
                        ELSE ~RiskAtLeast(rings[i], rings[j])
        place(i) == Cardinality({j \in DOMAIN rings : before(j, i)})
    IN [k \in DOMAIN rings |-> rings[CHOOSE i \in DOMAIN rings : place(i) = k]]

construct_fraud_rings(det, scores) ==
    SortRingsByRisk(RingsInDetectionOrder(det, scores))

---------------------------------------------------------------------------
(* response_builder.py: ResponseBuilder *)

\* No ring (ring_id None).
NoRing == 0

\* account_to_ring taking the last ring that lists the account.
account_to_last_ring(fraud_rings, account) ==
    LET holding == {k \in DOMAIN fraud_rings :
                        account \in Range(fraud_rings[k].member_accounts)}
    IN IF holding = {} THEN NoRing
       ELSE CHOOSE k \in holding : \A j \in holding : k >= j

\* assign_ring_ids_to_accounts: account_to_ring, the position of the first ring
\* of fraud_rings that lists the account.
account_to_ring(fraud_rings, account) ==
    LET holding == {k \in DOMAIN fraud_rings :
                        account \in Range(fraud_rings[k].member_accounts)}
    IN IF holding = {} THEN NoRing
       ELSE CHOOSE k \in holding : \A j \in holding : k <= j

\* assign_ring_ids_to_accounts: every score entry gets its ring_id.
assign_ring_ids_to_accounts(scores, fraud_rings) ==
    [a \in DOMAIN scores |->
        [score |-> scores[a].score,
         factors |-> scores[a].factors,
         patterns |-> scores[a].patterns,
         risk_level |-> scores[a].risk_level,
         ring_id |-> account_to_ring(fraud_rings, a)]]

\* _format_patterns: the standardized names, as a set (the code returns them
\* sorted and without duplicates).
format_patterns(data) ==
    {IF p = "cycle" THEN "cycle_length_3"
     ELSE IF p = "fan_in" THEN "fan_in_smurfing"
     ELSE IF p = "fan_out" THEN "fan_out_smurfing"
     ELSE "shell_chain" : p \in data.patterns}
    \cup (IF "velocity" \in data.factors THEN {"high_velocity"} ELSE {})

\* _build_suspicious_accounts: "Skip accounts with zero score".
ListedAccounts(raw_accounts) ==
    {a \in DOMAIN raw_accounts : raw_accounts[a].score # 0}

\* A sort key that forgets the score.
account_before_by_id(raw_accounts, a, b) == a < b

\* The sort key (-suspicion_score, account_id): a comes before b.
AccountBefore(raw_accounts, a, b) ==
    \/ raw_accounts[a].score > raw_accounts[b].score
    \/ raw_accounts[a].score = raw_accounts[b].score /\ a < b

\* accounts_list.sort(key=...): the listed accounts in key order.
SortAccounts(raw_accounts, S) ==
    [k \in 1..Cardinality(S) |->
        CHOOSE a \in S :
            Cardinality({b \in S : b = a \/ AccountBefore(raw_accounts, b, a)}) = k]

build_suspicious_accounts(raw_accounts) ==
    LET order == SortAccounts(raw_accounts, ListedAccounts(raw_accounts))
    IN [i \in DOMAIN order |->
          [account_id |-> order[i],
           suspicion_score |-> raw_accounts[order[i]].score,
           detected_patterns |-> format_patterns(raw_accounts[order[i]]),
           ring_id |-> raw_accounts[order[i]].ring_id]]

\* round(x, 1) of the exact mean sum / count of scores in tenths (ties to even).
RoundMean(sum, count) ==
    LET q == sum \div count
        r == sum % count
    IN IF 2 * r < count THEN q
       ELSE IF 2 * r > count THEN q + 1
       ELSE IF q % 2 = 0 THEN q ELSE q + 1

\* _build_fraud_rings: ids by position, members sorted.
build_fraud_rings(raw_rings) ==
    [idx \in DOMAIN raw_rings |->
        [ring_id |-> idx,
         member_accounts |-> SortNums(raw_rings[idx].member_accounts),
         pattern_type |-> raw_rings[idx].pattern_type,
         risk_score |-> RoundMean(raw_rings[idx].risk_sum, raw_rings[idx].member_count)]]

\* build_response; summary.processing_time_seconds, a wall-clock reading, is
\* left out of the modelled response.
build_response(detection_results, total_accounts) ==
    LET suspicious_accounts == build_suspicious_accounts(detection_results.suspicious_accounts)
        fraud_rings == build_fraud_rings(detection_results.fraud_rings)
    IN [suspicious_accounts |-> suspicious_accounts,
        fraud_rings |-> fraud_rings,
        summary |-> [total_accounts_analyzed |-> total_accounts,
                     suspicious_accounts_flagged |-> Len(suspicious_accounts),
                     fraud_rings_detected |-> Len(fraud_rings)]]

---------------------------------------------------------------------------
(* detection.py: run_full_detection, and main.py: detect_fraud *)

\* What a FraudDetectionEngine computes of a batch whatever the cycle
\* enumeration does: __init__ (the whitelist) and, in run_full_detection,
\* detect_smurfing_patterns(None, 72) and detect_shell_chains(3, 3).
EngineOf(df) ==
    [df |-> df,
     whitelisted_accounts |-> whitelisted_accounts(df),
     detected_fanin |-> detect_fanin(df, adaptive_threshold(df), 72),
     detected_fanout |-> detect_fanout(df, adaptive_threshold(df), 72),
     detected_chains |-> detect_shell_chains(df, 3, 3),
     stats |-> AccountStats(df)]

\* run_full_detection of an engine. all_cycles is the order in which
\* networkx.simple_cycles yields the cycles and budget the number of loop
\* iterations of detect_cycles that start within the time budget.
run_full_detection(engine, all_cycles, budget) ==
    LET det == [cycles |-> detect_cycles(all_cycles, budget, 3, 5),
                fanin |-> engine.detected_fanin,
                fanout |-> engine.detected_fanout,
                chains |-> engine.detected_chains]
        scores == calculate_suspicion_scores(engine.stats, det,
                                             engine.whitelisted_accounts)
        rings == construct_fraud_rings(det, scores)
    IN [engine |-> [df |-> engine.df,
                    detected_cycles |-> det.cycles,
                    detected_fanin |-> det.fanin,
                    detected_fanout |-> det.fanout,
                    detected_chains |-> det.chains,
                    whitelisted_accounts |-> engine.whitelisted_accounts,
                    timed_out |-> budget < Len(all_cycles)],
        results |-> [suspicious_accounts |-> scores, fraud_rings |-> rings]]

---------------------------------------------------------------------------
(* alert_engine.py: AlertEngine *)

\* The history limit the engine is constructed with (AlertEngine(max_alerts)).
max_alerts == 3

\* No account (account_id None).
NoAccount == 0

\* A dict with no key.
EmptyMap == [a \in {} |-> 0]

\* dict.get(key, 0)
GetOr0(map, key) == IF key \in DOMAIN map THEN map[key] ELSE 0

\* Alert.__init__: the fields of an alert its creator decides; a new alert
\* is not acknowledged.
Alert(alert_type, severity, account_id, ring_id) ==
    [alert_type |-> alert_type, severity |-> severity,
     account_id |-> account_id, ring_id |-> ring_id, acknowledged |-> FALSE]

\* Alert.__init__: self.id, the alert type followed by the reading of
\* datetime.now() at the resolution of the id.  The alerts of a list are
\* created in order; between two creations the reading moves on when the
\* clock is ticking and stays when it is not.
Stamped(new_alerts, now, ticking) ==
    [k \in DOMAIN new_alerts |->
        [id |-> <<new_alerts[k].alert_type, IF ticking THEN now + k ELSE now + 1>>,
         alert_type |-> new_alerts[k].alert_type,
         severity |-> new_alerts[k].severity,
         account_id |-> new_alerts[k].account_id,
         ring_id |-> new_alerts[k].ring_id,
         acknowledged |-> new_alerts[k].acknowledged]]

\* The clock reading after the alerts of a list were created.
ClockAfter(new_alerts, now, ticking) ==
    IF new_alerts = <<>> THEN now
    ELSE IF ticking THEN now + Len(new_alerts) ELSE now + 1

\* detect_new_rings: len(ring.get("members", [])).
member_count_of(ring) ==
    IF "members" \in DOMAIN ring THEN Len(ring.members) ELSE 0

\* detect_new_rings: severity of a new ring.
NewRingSeverity(ring) ==
    IF ring.risk_score >= 80 \/ member_count_of(ring) >= 10 THEN "CRITICAL"
    ELSE IF ring.risk_score >= 60 \/ member_count_of(ring) >= 7 THEN "HIGH"
    ELSE "MEDIUM"

\* detect_new_rings: one alert per listed ring whose id is not a previous one.
detect_new_rings(current_rings, previous_rings) ==
    LET new == SelectSeq(current_rings, LAMBDA ring : ring.ring_id \notin previous_rings)
    IN [k \in DOMAIN new |->
          Alert("NEW_RING", NewRingSeverity(new[k]), NoAccount, new[k].ring_id)]

\* A severity that looks at the spike only.
severity_by_spike_only(spike, current_score) ==
    IF spike >= 40 THEN "CRITICAL" ELSE IF spike >= 30 THEN "HIGH" ELSE "MEDIUM"

\* detect_risk_spikes: severity from the spike and the current score.
RiskSpikeSeverity(spike, current_score) ==
    IF spike >= 40 \/ current_score >= 80 THEN "CRITICAL"
    ELSE IF spike >= 30 \/ current_score >= 60 THEN "HIGH"
    ELSE "MEDIUM"

\* detect_risk_spikes: accounts whose score rose by spike_threshold = 20 or more.
detect_risk_spikes(current_scores, previous_scores) ==
    LET spike(a) == current_scores[a] - GetOr0(previous_scores, a)
        hit == SortedSeq({a \in DOMAIN current_scores : spike(a) >= 20})
    IN [k \in DOMAIN hit |->
          Alert("RISK_SPIKE", RiskSpikeSeverity(spike(hit[k]), current_scores[hit[k]]),
                hit[k], NoRing)]

\* detect_velocity_anomalies: whether an account's velocity raises an alert
\* (velocity_ratio = current / previous >= velocity_threshold = 5).
VelocityAnomaly(current_velocity, previous_velocity) ==
    IF previous_velocity > 0
    THEN current_velocity >= 5 * previous_velocity \/ current_velocity >= 10
    ELSE current_velocity >= 10

\* detect_velocity_anomalies: severity of the alert.
VelocitySeverity(current_velocity, previous_velocity) ==
    IF previous_velocity > 0
    THEN IF current_velocity >= 15 THEN "CRITICAL"
         ELSE IF current_velocity >= 10 THEN "HIGH"
         ELSE "MEDIUM"
    ELSE "HIGH"

detect_velocity_anomalies(current_velocities, previous_velocities) ==
    LET prev(a) == GetOr0(previous_velocities, a)
        hit == SortedSeq({a \in DOMAIN current_velocities :
                             VelocityAnomaly(current_velocities[a], prev(a))})
    IN [k \in DOMAIN hit |->
          Alert("VELOCITY_ANOMALY",
                VelocitySeverity(current_velocities[hit[k]], prev(hit[k])),
                hit[k], NoRing)]

\* detect_critical_nodes: accounts at critical_threshold = 85 or more that
\* previous_state["risk_scores"] does not hold.
detect_critical_nodes(risk_scores, previous_scores) ==
    LET hit == SortedSeq({a \in DOMAIN risk_scores :
                             risk_scores[a] >= 85 /\ a \notin DOMAIN previous_scores})
    IN [k \in DOMAIN hit |-> Alert("CRITICAL_NODE", "CRITICAL", hit[k], NoRing)]

\* add_alert that drops the newest alert, not the oldest, of a full history.
add_alert_keeping_oldest(history, alert) ==
    IF Len(history) >= max_alerts THEN history ELSE <<alert>> \o history

\* add_alert: insert at the front, then keep the first max_alerts.
add_alert(history, alert) ==
    LET inserted == <<alert>> \o history
    IN IF Len(inserted) > max_alerts THEN SubSeq(inserted, 1, max_alerts)
       ELSE inserted

\* analyze_and_generate_alerts: "for alert in all_alerts: self.add_alert(alert)".
RECURSIVE AddAll(_, _)
AddAll(history, all_alerts) ==
    IF all_alerts = <<>> THEN history
    ELSE AddAll(add_alert(history, Head(all_alerts)), Tail(all_alerts))

\* acknowledge_alert: the first alert of the history with the id is marked.
acknowledge_alert(history, alert_id) ==
    LET matching == {i \in DOMAIN history : history[i].id = alert_id}
    IN IF matching = {} THEN history
       ELSE LET first == CHOOSE i \in matching : \A j \in matching : i <= j
            IN [history EXCEPT ![first].acknowledged = TRUE]

\* analyze_and_generate_alerts: all_alerts, in the order of the four detectors.
all_alerts_of(state, current_rings, risk_scores, velocities) ==
    detect_new_rings(current_rings, state.rings)
    \o detect_risk_spikes(risk_scores, state.risk_scores)
    \o detect_velocity_anomalies(velocities, state.velocities)
    \o detect_critical_nodes(risk_scores, state.risk_scores)

---------------------------------------------------------------------------
(* alert_engine.py: analyze_and_generate_alerts *)

MaxCalls == 2

MaxClock == 4

\* AlertEngine.analyze_and_generate_alerts: what the call does to the engine.
analyze_and_generate_alerts(current_rings, risk_scores, velocities, ticking) ==
    /\ calls < MaxCalls
    /\ LET all_alerts == Stamped(all_alerts_of(previous_state, current_rings,
                                               risk_scores, velocities),
                                 clock, ticking)
       IN /\ alerts' = AddAll(alerts, all_alerts)
          /\ previous_state' =
                [rings |-> {current_rings[k].ring_id : k \in DOMAIN current_rings},
                 risk_scores |-> risk_scores,
                 velocities |-> velocities]
          /\ last_call' = <<[current_rings |-> current_rings,
                              risk_scores |-> risk_scores,
                              velocities |-> velocities,
                              previous_rings |-> previous_state.rings,
                              previous_scores |-> previous_state.risk_scores,
                              previous_velocities |-> previous_state.velocities,
                              returned |-> all_alerts]>>
          /\ clock' = ClockAfter(all_alerts, clock, ticking)
    /\ calls' = calls + 1

---------------------------------------------------------------------------
(* risk_engine.py: RiskIntelligenceEngine *)

\* calculate_degree_centrality_score, in points:
\* min(degree_centrality * 40 + betweenness * 30 + pagerank * 1000 * 30, 100).
\* nx.pagerank (damping 0.85) gives each of the n accounts at least 0.15 / n,
\* so its term is at least 4500 / n, and betweenness is not negative: on a
\* graph of at most 45 accounts the two terms kept here reach the cap and the
\* score is 100.
calculate_degree_centrality_score(df, account) ==
    LET n == Cardinality(NodeSet(df))
        degree_score == IF n <= 1 THEN 40
                        ELSE (40 * total_degree(df, account)) \div (n - 1)
        pagerank_score == 4500 \div n
    IN Min(degree_score + pagerank_score, 100)

\* What the velocity, cycle involvement, ring density and volume anomaly
\* factors (each in 0 .. 100, weights 0.20, 0.25, 0.20, 0.15) add to the
\* weighted sum of an account, in points: a value between 0 and 80 that the
\* model takes from outside, the same for the accounts of a run.
OtherFactorPoints == {0, 65}

\* calculate_comprehensive_risk_scores: risk_level of a weighted sum.
ComprehensiveRiskLevel(final_score) ==
    IF final_score >= 70 THEN "CRITICAL"
    ELSE IF final_score >= 50 THEN "HIGH"
    ELSE IF final_score >= 30 THEN "MEDIUM"
    ELSE "LOW"

\* calculate_comprehensive_risk_scores: the record of every account of the
\* graph (risk_score in points; risk_factors and explanation left out).
\* whitelisted is self.whitelisted_accounts of the risk engine.
calculate_comprehensive_risk_scores(df, basic_scores, whitelisted, other) ==
    [account \in NodeSet(df) |->
        LET final_score ==
                (20 * calculate_degree_centrality_score(df, account)) \div 100
                + other
            zeroed == account \in whitelisted
        IN [account_id |-> account,
            risk_score |-> IF zeroed THEN 0 ELSE final_score,
            risk_level |-> IF zeroed THEN "LOW"
                           ELSE ComprehensiveRiskLevel(final_score),
            patterns |-> IF account \in DOMAIN basic_scores
                         THEN basic_scores[account].patterns ELSE {}]]

---------------------------------------------------------------------------
(* main.py: what detect_fraud hands to the risk engine and the alert engine *)

\* RiskIntelligenceEngine(graph, transactions_df, fraud_rings,
\* suspicious_accounts): whitelisted_accounts is not passed, and the engine
\* takes "whitelisted_accounts or set()".
PipelineWhitelist == {}

\* risk_scores = {acc_id: data.get('risk_score', 0)}
pipeline_risk_scores(data) ==
    [account \in DOMAIN data |->
        IF "risk_score" \in DOMAIN data[account] THEN data[account].risk_score
        ELSE 0]

\* A hand-off that reads the velocity from the risk score.
velocities_from_risk_score(data) ==
    [account \in DOMAIN data |-> data[account].risk_score]

\* velocities = {acc_id: data.get('velocity_score', 0)}
pipeline_velocities(data) ==
    [account \in DOMAIN data |->
        IF "velocity_score" \in DOMAIN data[account]
        THEN data[account].velocity_score
        ELSE 0]

\* current_rings = results['fraud_rings']: the ring records, with risk_score
\* (the mean of the member scores) in whole points, which is what the
\* comparisons of the alert engine with 60 and 80 see of it.
pipeline_rings(fraud_rings) ==
    [k \in DOMAIN fraud_rings |->
        [ring_id |-> fraud_rings[k].ring_id,
         pattern_type |-> fraud_rings[k].pattern_type,
         member_accounts |-> fraud_rings[k].member_accounts,
         member_count |-> fraud_rings[k].member_count,
         risk_score |-> fraud_rings[k].risk_sum
                            \div (10 * fraud_rings[k].member_count)]]

\* The stages of detect_fraud in which an exception can be raised, in order.
Stages ==
    <<"detection", "response_building", "result_formatting", "risk_engine",
      "alert_generation">>

\* Whether a run in which failure is raised (or nothing, "none") gets past
\* a stage.
Completes(failure, stage) ==
    \/ failure = "none"
    \/ \E i, j \in DOMAIN Stages :
          Stages[i] = stage /\ Stages[j] = failure /\ i < j

---------------------------------------------------------------------------
(* The validated batches of the model *)

BaseHour == 10

MaxFan == 15

MaxCycleLen == 6

MaxDiamond == 3

MaxExtra == 1

tx(s, r, amount, ts) == [s |-> s, r |-> r, amount |-> amount, ts |-> ts]

\* A directed ring 1 -> 2 -> ... -> L -> 1, one transaction per edge, gap hours
\* apart (L = 1 is a self-loop, L = 2 a 2-cycle).
RingBlock(L, gap) ==
    [k \in 1..L |-> tx(k, (k % L) + 1, 1000, BaseHour + (k - 1) * gap)]

\* A path 1 -> 2 -> ... -> L with timestamps rising (up) or falling along it.
PathBlock(L, up) ==
    [k \in 1..(L - 1) |->
        tx(k, k + 1, 1000, BaseHour + (IF up THEN k - 1 ELSE L - k))]

\* Two disjoint triangles 1 -> 2 -> 3 -> 1 and 4 -> 5 -> 6 -> 4.
TwoTriangles ==
    RingBlock(3, 1)
    \o [k \in 1..3 |-> tx(3 + k, 4 + (k % 3), 1000, BaseHour + (k - 1))]

\* k triangles 1 -> 2 -> j -> 1 (j = 3 .. k + 2) sharing the edge 1 -> 2.
Diamond(k) ==
    <<tx(1, 2, 1000, BaseHour)>>
    \o [i \in 1..(2 * k) |->
          IF i % 2 = 1 THEN tx(2, 3 + (i \div 2), 1000, BaseHour + 1)
          ELSE tx(2 + (i \div 2), 1, 1000, BaseHour + 2)]

\* n satellites 7 .. 6 + n paying the hub 1, gap hours apart.
FanInBlock(n, gap) ==
    [k \in 1..n |-> tx(6 + k, 1, 100, BaseHour + (k - 1) * gap)]

\* The hub 1 paying n satellites, with equal or widely varied amounts.
FanOutBlock(n, gap, varied) ==
    [k \in 1..n |-> tx(1, 6 + k, IF varied THEN k * k ELSE 1000,
                       BaseHour + (k - 1) * gap)]

StarBlocks ==
    {FanInBlock(n, gap) : n \in {5, MaxFan}, gap \in {0, 80}}
    \cup {FanOutBlock(n, gap, v) : n \in {5, MaxFan}, gap \in {0, 80}, v \in BOOLEAN}

\* What a star is combined with: its hub is account 1 of the ring or the path.
StarCores == {<<>>, RingBlock(3, 1), PathBlock(3, TRUE)}

CoreBlocks ==
    {RingBlock(L, gap) : L \in 1..MaxCycleLen, gap \in {1, 100}}
    \cup {PathBlock(L, up) : L \in {3, 5}, up \in BOOLEAN}
    \cup {TwoTriangles}
    \cup {Diamond(k) : k \in 2..MaxDiamond}

\* What further transactions are appended to.
ExtraCores == {RingBlock(3, 1), PathBlock(3, TRUE), PathBlock(5, TRUE)}

\* One more transaction among the accounts 1..3.
ExtraTxns ==
    {tx(s, r, 1000, BaseHour + d) : s \in 1..3, r \in 1..3, d \in {0, 200}}

\* The sequences of 1..n further transactions.
RECURSIVE ExtraSeqs(_)
ExtraSeqs(n) ==
    IF n = 1 THEN {<<x>> : x \in ExtraTxns}
    ELSE ExtraSeqs(n - 1)
         \cup {Append(e, x) : e \in {q \in ExtraSeqs(n - 1) : Len(q) = n - 1},
                              x \in ExtraTxns}

\* The batches validate_csv_data lets through (never empty).
Batches ==
    {star \o core : star \in StarBlocks, core \in StarCores}
    \cup CoreBlocks
    \cup {core \o extra : core \in ExtraCores, extra \in ExtraSeqs(MaxExtra)}

---------------------------------------------------------------------------
(* The uploaded files and their validation *)

EXPECTED_COLUMNS ==
    <<"transaction_id", "sender_id", "receiver_id", "amount", "timestamp">>

\* A parsed file: its column names and its rows.  A row holds the cells as
\* read: amount is the number pd.to_numeric gives when amount_numeric (NaN
\* otherwise), ts the hour pd.to_datetime gives when ts_valid (NaT otherwise).
RawRow(transaction_id, row, amount_numeric, ts_valid) ==
    [transaction_id |-> transaction_id, s |-> row.s, r |-> row.r,
     amount |-> row.amount, amount_numeric |-> amount_numeric,
     ts |-> row.ts, ts_valid |-> ts_valid]

\* The well-formed file of a batch, transaction ids 1, 2, ...
RawOf(batch) ==
    [columns |-> EXPECTED_COLUMNS,
     rows |-> [i \in DOMAIN batch |-> RawRow(i, batch[i], TRUE, TRUE)]]

\* validate_csv_structure: exactly the expected columns, in order.
validate_csv_structure(raw) == raw.columns = EXPECTED_COLUMNS

\* validate_transaction_ids: no transaction_id occurs twice.
validate_transaction_ids(raw) ==
    \A i, j \in DOMAIN raw.rows :
        raw.rows[i].transaction_id = raw.rows[j].transaction_id => i = j

\* An amount check that also turns down negative numbers.
validate_amounts_non_negative(raw) ==
    \A i \in DOMAIN raw.rows :
        raw.rows[i].amount_numeric /\ raw.rows[i].amount >= 0

\* validate_amounts: no amount converts to NaN.
validate_amounts(raw) ==
    \A i \in DOMAIN raw.rows : raw.rows[i].amount_numeric

\* validate_timestamps: no timestamp converts to NaT.
validate_timestamps(raw) ==
    \A i \in DOMAIN raw.rows : raw.rows[i].ts_valid

\* validate_csv_data: TRUE when it returns the frame, FALSE when it raises
\* ValidationError.
validate_csv_data(raw) ==
    /\ raw.rows # <<>>
    /\ validate_csv_structure(raw)
    /\ validate_transaction_ids(raw)
    /\ validate_amounts(raw)
    /\ validate_timestamps(raw)

\* The frame validate_csv_data returns: amounts and timestamps converted.
ValidatedFrame(raw) ==
    [i \in DOMAIN raw.rows |->
        tx(raw.rows[i].s, raw.rows[i].r, raw.rows[i].amount, raw.rows[i].ts)]

\* The file of a triangle with one row replaced.
TriangleWith(i, row) ==
    [columns |-> EXPECTED_COLUMNS,
     rows |-> [RawOf(RingBlock(3, 1)).rows EXCEPT ![i] = row]]

\* Files validate_csv_data turns down: no rows, a column missing, columns
\* in another order, a repeated transaction_id, an amount that is no
\* number, a timestamp in another format.
RejectedFiles ==
    {[columns |-> EXPECTED_COLUMNS, rows |-> <<>>],
     [columns |-> SubSeq(EXPECTED_COLUMNS, 1, 4),
      rows |-> RawOf(RingBlock(3, 1)).rows],
     [columns |-> <<"transaction_id", "receiver_id", "sender_id", "amount",
                    "timestamp">>,
      rows |-> RawOf(RingBlock(3, 1)).rows],
     TriangleWith(2, RawRow(1, RingBlock(3, 1)[2], TRUE, TRUE)),
     TriangleWith(2, RawRow(2, RingBlock(3, 1)[2], FALSE, TRUE)),
     TriangleWith(3, RawRow(3, RingBlock(3, 1)[3], TRUE, FALSE))}

\* Files with an amount below zero or equal to zero.
SignedFiles ==
    {TriangleWith(i, RawRow(i, tx(i, (i % 3) + 1, amount, BaseHour + i - 1),
                            TRUE, TRUE)) :
        i \in {1, 3}, amount \in {-1000, 0}}

\* The files uploaded in the model.
Files == {RawOf(batch) : batch \in Batches} \cup RejectedFiles \cup SignedFiles

---------------------------------------------------------------------------
(* The state machine *)

Init ==
    /\ transaction_graph = <<>>
    /\ ingested = <<>>
    /\ node_metrics = EmptyMap
    /\ upload_response = <<>>
    /\ detection_strategy = "all_patterns"
    /\ strategy_response = <<>>
    /\ monitoring_mode = FALSE
    /\ transactions_df = <<>>
    /\ fraud_detection_results = <<>>
    /\ formatted_results = <<>>
    /\ detector = <<>>
    /\ risk_intelligence_data = <<>>
    /\ detect_response = <<>>
    /\ alerts = <<>>
    /\ previous_state = [rings |-> {}, risk_scores |-> EmptyMap,
                         velocities |-> EmptyMap]
    /\ last_call = <<>>
    /\ calls = 0
    /\ clock = 0
    /\ engine_call = <<>>

\* main.py upload_csv: a file validate_csv_data turns down is answered with
\* 400 and nothing is stored; otherwise the validated frame is stored and its
\* graph built.
UploadCsv(raw) ==
    /\ IF validate_csv_data(raw)
       THEN /\ transaction_graph' = <<build_from_dataframe(ValidatedFrame(raw))>>
            /\ ingested' = <<ValidatedFrame(raw)>>
            /\ node_metrics' =
                   calculate_node_metrics(build_from_dataframe(ValidatedFrame(raw)),
                                          ValidatedFrame(raw))
            /\ transactions_df' = ValidatedFrame(raw)
            /\ upload_response' = <<[request |-> raw, status |-> 200]>>
       ELSE /\ upload_response' = <<[request |-> raw, status |-> 400]>>
            /\ UNCHANGED <<graph_vars, transactions_df>>
    /\ UNCHANGED <<strategy_vars, results_vars, alert_vars, engine_call>>

\* The upload of a session that takes one accepted upload.
Upload(raw) ==
    /\ transactions_df = <<>>
    /\ UploadCsv(raw)

\* main.py detect_fraud.  Without data the answer is 404.  Otherwise:
\* run_full_detection, assign_ring_ids_to_accounts, build_response and the
\* assignment of formatted_results; result formatting and the assignment of
\* fraud_detection_results; the risk engine and the assignment of
\* risk_intelligence_data; under monitoring_mode, the alert engine.  In a run
\* the stage failure raises an exception ("none": no stage does), one of the
\* failures the sessions let happen; it is answered with 500 and what was
\* assigned before it stays.  others and tickings are what the sessions let
\* the other risk factors add and the clock do.
DetectFraudRun(failures, others, tickings) ==
    IF transactions_df = <<>>
    THEN /\ detect_response' = <<[status |-> 404, failure |-> "none"]>>
         /\ UNCHANGED <<graph_vars, upload_response, strategy_vars,
                        transactions_df, fraud_detection_results,
                        formatted_results, detector, risk_intelligence_data,
                        alert_vars, engine_call>>
    ELSE
    /\ LET engine == EngineOf(transactions_df)
           total_accounts == Cardinality(NodeSet(transactions_df))
       IN \E all_cycles \in Enumerations(simple_cycles(transactions_df)) :
          \E budget \in 0..Len(all_cycles) :
            LET run == run_full_detection(engine, all_cycles, budget)
                results == [suspicious_accounts |->
                                assign_ring_ids_to_accounts(
                                    run.results.suspicious_accounts,
                                    run.results.fraud_rings),
                            fraud_rings |-> run.results.fraud_rings]
                formatted == build_response(results, total_accounts)
            IN \E failure \in failures, other \in others, ticking \in tickings :
               LET risk == calculate_comprehensive_risk_scores(
                               transactions_df, results.suspicious_accounts,
                               PipelineWhitelist, other)
               IN /\ failure = "alert_generation" => monitoring_mode
                  /\ detector' = IF Completes(failure, "detection")
                                  THEN <<run.engine>> ELSE detector
                  /\ formatted_results' =
                         IF Completes(failure, "response_building")
                         THEN <<formatted>> ELSE formatted_results
                  /\ fraud_detection_results' =
                         IF Completes(failure, "result_formatting")
                         THEN <<results>> ELSE fraud_detection_results
                  /\ risk_intelligence_data' =
                         IF Completes(failure, "risk_engine")
                         THEN <<risk>> ELSE risk_intelligence_data
                  /\ IF monitoring_mode /\ failure = "none"
                     THEN analyze_and_generate_alerts(
                              pipeline_rings(results.fraud_rings),
                              pipeline_risk_scores(risk),
                              pipeline_velocities(risk), ticking)
                     ELSE UNCHANGED alert_vars
                  /\ detect_response' =
                         <<[status |-> IF failure = "none" THEN 200 ELSE 500,
                            failure |-> failure]>>
    /\ UNCHANGED <<graph_vars, upload_response, strategy_vars, transactions_df,
                   engine_call>>

\* A detect-fraud call in which no stage fails.
DetectFraud == DetectFraudRun({"none"}, OtherFactorPoints, {TRUE})

\* main.py toggle_monitoring
ToggleMonitoring(enabled) ==
    /\ monitoring_mode' = enabled
    /\ UNCHANGED <<graph_vars, upload_response, detection_strategy,
                   strategy_response, transactions_df, results_vars, alert_vars,
                   engine_call>>

Next ==
    \/ \E raw \in Files : Upload(raw)
    \/ DetectFraud

Spec == Init /\ [][Next]_vars

---------------------------------------------------------------------------
(* The detection strategy *)

\* set_detection_strategy: valid_strategies.
valid_strategies == {"all_patterns", "cycles_only", "fan_patterns", "shells_only"}

\* The strategies asked for, one of them unknown.
RequestedStrategies == valid_strategies \cup {"everything"}

\* main.py set_detection_strategy: an unknown strategy is answered with 400
\* and the global keeps its value; a valid one is stored.
SetDetectionStrategy(strategy) ==
    /\ IF strategy \notin valid_strategies
       THEN /\ strategy_response' = <<[request |-> strategy, status |-> 400]>>
            /\ UNCHANGED detection_strategy
       ELSE /\ detection_strategy' = strategy
            /\ strategy_response' = <<[request |-> strategy, status |-> 200]>>
    /\ UNCHANGED <<graph_vars, upload_response, monitoring_mode, transactions_df,
                   results_vars, alert_vars, engine_call>>

\* The files uploaded where the strategy varies: cycles, fans and chains,
\* alone and together.
StrategyFiles ==
    {RawOf(batch) : batch \in
        {RingBlock(3, 1), TwoTriangles, PathBlock(5, TRUE), PathBlock(3, TRUE),
         FanInBlock(MaxFan, 0), FanOutBlock(MaxFan, 0, FALSE),
         FanInBlock(MaxFan, 0) \o RingBlock(3, 1),
         FanOutBlock(MaxFan, 0, FALSE) \o PathBlock(3, TRUE)}}

\* detect_fraud never reads detection_strategy: DetectFraud is the handler
\* under every strategy.
StrategyNext ==
    \/ \E raw \in StrategyFiles : Upload(raw)
    \/ \E strategy \in RequestedStrategies : SetDetectionStrategy(strategy)
    \/ DetectFraud

StrategySpec == Init /\ [][StrategyNext]_vars

---------------------------------------------------------------------------
(* Monitored sessions *)

\* The files of these sessions: a triangle on the accounts 1, 2, 3, and a
\* triangle on the accounts 4, 5, 6.
MonitorFiles ==
    {RawOf(batch) : batch \in {RingBlock(3, 1), SubSeq(TwoTriangles, 4, 6)}}

\* Uploads replace the data at any time, monitoring is switched on and off,
\* and no detect-fraud call fails.  The monitored runs are the first MaxCalls
\* calls of the alert engine.
MonitorNext ==
    \/ \E raw \in MonitorFiles : UploadCsv(raw)
    \/ \E enabled \in BOOLEAN : ToggleMonitoring(enabled)
    \/ DetectFraudRun({"none"}, {65}, {TRUE})

MonitorSpec == Init /\ [][MonitorNext]_vars

---------------------------------------------------------------------------
(* Sessions with failing runs *)

\* The files of these sessions: a triangle, and five senders paying one
\* account within the hour.
FailureFiles == {RawOf(batch) : batch \in {RingBlock(3, 1), FanInBlock(5, 0)}}

\* What a detect-fraud call can fail in.
Failures == Range(Stages) \cup {"none"}

\* One accepted upload; a detect-fraud call can fail at any stage.
FailureNext ==
    \/ \E raw \in FailureFiles : Upload(raw)
    \/ \E enabled \in BOOLEAN : ToggleMonitoring(enabled)
    \/ DetectFraudRun(Failures, {0}, {TRUE})

FailureSpec == Init /\ [][FailureNext]_vars

---------------------------------------------------------------------------
(* The transaction graph driven on its own *)

MaxGraphRows == 3

\* The rows of the frames handed to the graph: two accounts, self-loops
\* included, two amounts.
GraphRows ==
    {tx(s, r, amount, BaseHour) : s \in 1..2, r \in 1..2, amount \in {100, 250}}

\* The frames of one or two rows.
GraphFrames ==
    {<<x>> : x \in GraphRows} \cup {<<x, y>> : x \in GraphRows, y \in GraphRows}

\* TransactionGraph() followed by build_from_dataframe(df).
BuildFromDataframe(df) ==
    /\ transaction_graph = <<>>
    /\ Len(df) <= MaxGraphRows
    /\ transaction_graph' = <<build_from_dataframe(df)>>
    /\ ingested' = <<df>>
    /\ node_metrics' = calculate_node_metrics(build_from_dataframe(df), df)
    /\ UNCHANGED <<upload_response, strategy_vars, transactions_df,
                   results_vars, alert_vars, engine_call>>

\* add_transactions(new_df) on the graph built before.
AddTransactions(new_df) ==
    /\ transaction_graph # <<>>
    /\ Len(Flatten(ingested)) + Len(new_df) <= MaxGraphRows
    /\ transaction_graph' = <<add_transactions(transaction_graph[1], new_df)>>
    /\ ingested' = Append(ingested, new_df)
    /\ node_metrics' =
           update_node_metrics(node_metrics,
                               add_transactions(transaction_graph[1], new_df),
                               new_df, NodeSet(new_df))
    /\ UNCHANGED <<upload_response, strategy_vars, transactions_df,
                   results_vars, alert_vars, engine_call>>

GraphNext ==
    \/ \E df \in GraphFrames : BuildFromDataframe(df)
    \/ \E new_df \in GraphFrames : AddTransactions(new_df)

GraphSpec == Init /\ [][GraphNext]_vars

---------------------------------------------------------------------------
(* The detection engine driven on its own *)

\* Every call is made on an engine constructed for it: engine_call is empty
\* before the call.

\* The triangles 3k-2 -> 3k-1 -> 3k -> 3k-2 and, for every tenth k, the
\* 2-cycle 3k-2 <-> 3k-1 in the place of the triangle: the cycles of a graph
\* of n disjoint components, in the order of k.
ComponentCycles(n) ==
    [k \in 1..n |-> IF k % 10 = 0 THEN <<3 * k - 2, 3 * k - 1>>
                    ELSE <<3 * k - 2, 3 * k - 1, 3 * k>>]

\* The numbers of components: cycles in range below, at and above the limit.
ComponentCounts ==
    {MAX_CYCLES_LIMIT - 1, MAX_CYCLES_LIMIT + 54, MAX_CYCLES_LIMIT + 55,
     MAX_CYCLES_LIMIT + 56, MAX_CYCLES_LIMIT + 80}

\* The batches whose graphs have several cycles in and out of range.
CycleBatches ==
    {Diamond(2), Diamond(3), TwoTriangles, RingBlock(2, 1) \o Diamond(2),
     RingBlock(6, 1), RingBlock(5, 1)}

\* What simple_cycles yields to detect_cycles: every order of the cycles of
\* a small graph, and the cycles of the large graphs in the order of k and
\* in the opposite order.
CycleStreams ==
    UNION {Enumerations(simple_cycles(df)) : df \in CycleBatches}
    \cup {ComponentCycles(n) : n \in ComponentCounts}
    \cup {[k \in 1..n |-> ComponentCycles(n)[n + 1 - k]] : n \in ComponentCounts}

\* The numbers of iterations that start within the time budget.
Budgets(all_cycles) ==
    {0, 1, 2, Len(all_cycles) - 1, Len(all_cycles)} \cap 0..Len(all_cycles)

\* detect_cycles(3, 5) on an engine whose graph has the cycles all_cycles.
DetectCycles(all_cycles, budget) ==
    /\ engine_call = <<>>
    /\ engine_call' = <<[method |-> "detect_cycles",
                         all_cycles |-> all_cycles,
                         budget |-> budget,
                         returned |-> detect_cycles(all_cycles, budget, 3, 5)]>>
    /\ UNCHANGED <<graph_vars, upload_response, strategy_vars, transactions_df,
                   results_vars, alert_vars>>

\* FraudDetectionEngine(graph, df).run_full_detection().
RunFullDetection(df, all_cycles, budget) ==
    /\ engine_call = <<>>
    /\ engine_call' = <<[method |-> "run_full_detection",
                         df |-> df,
                         all_cycles |-> all_cycles,
                         budget |-> budget,
                         returned |-> run_full_detection(EngineOf(df), all_cycles,
                                                         budget)]>>
    /\ UNCHANGED <<graph_vars, upload_response, strategy_vars, transactions_df,
                   results_vars, alert_vars>>

MaxSmurfRows == 3

\* The rows of the frames searched for fan patterns: accounts 2 and 3 paying
\* account 1 or paid by it, at hours 0, 1 and 3 after BaseHour, every kind of
\* row with an amount of its own.
SmurfRows ==
    {tx(pair[1], pair[2], 100 * pair[1] + 10 * pair[2] + hour, BaseHour + hour) :
        pair \in {<<2, 1>>, <<3, 1>>, <<1, 2>>, <<1, 3>>}, hour \in {0, 1, 3}}

\* The frames of 1..n such rows, in any order.
RECURSIVE SmurfFrames(_)
SmurfFrames(n) ==
    IF n = 0 THEN {<<>>}
    ELSE {<<>>} \cup {Append(df, row) : df \in SmurfFrames(n - 1), row \in SmurfRows}

\* FraudDetectionEngine(graph, df).detect_smurfing_patterns(threshold,
\* time_window_hours).
DetectSmurfingPatterns(df, threshold, time_window_hours) ==
    /\ engine_call = <<>>
    /\ engine_call' = <<[method |-> "detect_smurfing_patterns",
                         df |-> df,
                         threshold |-> threshold,
                         time_window_hours |-> time_window_hours,
                         returned |->
                            [fan_in |-> detect_fanin(df, threshold,
                                                     time_window_hours),
                             fan_out |-> detect_fanout(df, threshold,
                                                       time_window_hours)]]>>
    /\ UNCHANGED <<graph_vars, upload_response, strategy_vars, transactions_df,
                   results_vars, alert_vars>>

MaxChainExtra == 2

\* The paths 1 -> 2 -> 3 and 1 -> 2 -> 3 -> 4, every edge at BaseHour or
\* an hour later.
ChainPaths ==
    {<<tx(1, 2, 1000, BaseHour + h1), tx(2, 3, 1000, BaseHour + h2)>> :
        h1 \in {0, 1}, h2 \in {0, 1}}
    \cup {<<tx(1, 2, 1000, BaseHour + h1), tx(2, 3, 1000, BaseHour + h2),
            tx(3, 4, 1000, BaseHour + h3)>> :
            h1 \in {0, 1}, h2 \in {0, 1}, h3 \in {0, 1}}

\* The sequences of at most n further transactions among the accounts 1..4,
\* an hour after BaseHour.
RECURSIVE ChainExtras(_)
ChainExtras(n) ==
    IF n = 0 THEN {<<>>}
    ELSE {<<>>} \cup {Append(extra, tx(pair[1], pair[2], 1000, BaseHour + 1)) :
                        extra \in ChainExtras(n - 1),
                        pair \in {p \in (1..4) \X (1..4) : p[1] # p[2]}}

\* The frames searched for shell chains.
ChainFrames ==
    {path \o extra : path \in ChainPaths, extra \in ChainExtras(MaxChainExtra)}

\* The arguments (min_length, max_degree) of the calls.
ChainArguments == {<<3, 3>>, <<3, 2>>, <<2, 2>>}

\* FraudDetectionEngine(graph, df).detect_shell_chains(min_length, max_degree).
DetectShellChains(df, min_length, max_degree) ==
    /\ engine_call = <<>>
    /\ engine_call' = <<[method |-> "detect_shell_chains",
                         df |-> df,
                         min_length |-> min_length,
                         max_degree |-> max_degree,
                         returned |-> detect_shell_chains(df, min_length,
                                                          max_degree)]>>
    /\ UNCHANGED <<graph_vars, upload_response, strategy_vars, transactions_df,
                   results_vars, alert_vars>>

\* The hub 1 pays the accounts 7 .. 11 within the hour; account 7 is also paid
\* by 12 and 13 in the two hours that follow and by 14 and 15 days later.
PaidReceiverFrame ==
    FanOutBlock(5, 0, TRUE)
    \o <<tx(12, 7, 100, BaseHour + 1), tx(13, 7, 100, BaseHour + 2),
         tx(14, 7, 100, BaseHour + 100), tx(15, 7, 100, BaseHour + 200)>>

\* The frames scored: stars whose hub is whitelisted or not, alone, around a
\* ring or a path, and the frame of a whitelisted receiver of a fan-out.
ScoreFrames ==
    {star \o core : star \in {FanInBlock(5, 0), FanInBlock(5, 80),
                               FanOutBlock(5, 0, FALSE), FanOutBlock(5, 0, TRUE),
                               FanOutBlock(5, 80, FALSE)},
                    core \in StarCores}
    \cup {PaidReceiverFrame}

\* Steps 1 to 5 of calculate_suspicion_scores: the scores dict when the
\* whitelist step starts, in tenths.
ScoresBeforeWhitelist(stats, det) ==
    [a \in ScoredBeforeWhitelist(stats, det) |-> ScoreAfterVelocity(stats, det, a)]

\* Step 6 of calculate_suspicion_scores: the scores dict when the whitelist
\* step ends, in tenths.
ScoresAfterWhitelist(stats, det, whitelisted) ==
    [a \in ScoredBeforeWhitelist(stats, det) |->
        IF a \in whitelisted
        THEN WhitelistOverride(ScoreAfterVelocity(stats, det, a),
                               a \in smurfing_members(det))
        ELSE ScoreAfterVelocity(stats, det, a)]

\* calculate_suspicion_scores() after the three detectors ran on the engine
\* of a frame, with the scores dict as it is before and after step 6.
CalculateSuspicionScores(df, all_cycles) ==
    LET engine == EngineOf(df)
        det == [cycles |-> detect_cycles(all_cycles, Len(all_cycles), 3, 5),
                fanin |-> engine.detected_fanin,
                fanout |-> engine.detected_fanout,
                chains |-> engine.detected_chains]
    IN /\ engine_call = <<>>
       /\ engine_call' =
              <<[method |-> "calculate_suspicion_scores",
                 df |-> df,
                 whitelisted_accounts |-> engine.whitelisted_accounts,
                 smurfing_members |-> smurfing_members(det),
                 before_whitelist |-> ScoresBeforeWhitelist(engine.stats, det),
                 after_whitelist |->
                     ScoresAfterWhitelist(engine.stats, det,
                                          engine.whitelisted_accounts),
                 returned |-> calculate_suspicion_scores(
                                  engine.stats, det, engine.whitelisted_accounts)]>>
       /\ UNCHANGED <<graph_vars, upload_response, strategy_vars, transactions_df,
                      results_vars, alert_vars>>

DetectorNext ==
    \/ \E df \in ScoreFrames : \E all_cycles \in Enumerations(simple_cycles(df)) :
          CalculateSuspicionScores(df, all_cycles)
    \/ \E df \in ChainFrames : \E arguments \in ChainArguments :
          DetectShellChains(df, arguments[1], arguments[2])
    \/ \E df \in SmurfFrames(MaxSmurfRows) \ {<<>>} : \E threshold \in {2, 3} :
          DetectSmurfingPatterns(df, threshold, 1)
    \/ \E all_cycles \in CycleStreams : \E budget \in Budgets(all_cycles) :
          DetectCycles(all_cycles, budget)
    \/ \E df \in CycleBatches :
       \E all_cycles \in Enumerations(simple_cycles(df)) :
       \E budget \in Budgets(all_cycles) :
          RunFullDetection(df, all_cycles, budget)

DetectorSpec == Init /\ [][DetectorNext]_vars

---------------------------------------------------------------------------
(* The alert engine driven on its own *)

\* A ring record as construct_fraud_rings appends it, n member accounts under
\* "member_accounts" (risk_score in points).
PipelineRing(ring_id, risk_score, n) ==
    [ring_id |-> ring_id,
     pattern_type |-> "fan_in",
     member_accounts |-> [k \in 1..n |-> k],
     member_count |-> n,
     risk_score |-> risk_score]

\* A ring record that lists its n members under "members".
MembersRing(ring_id, risk_score, n) ==
    [ring_id |-> ring_id, risk_score |-> risk_score,
     members |-> [k \in 1..n |-> k]]

\* The ring lists handed to the alert engine.
AlertRings ==
    LET A == MembersRing(1, 85, 3)
        B == MembersRing(2, 50, 7)
    IN {<<>>, <<A>>, <<A, B>>, <<A, A>>,
        <<PipelineRing(1, 85, 12)>>,
        <<PipelineRing(1, 40, 12)>>,
        <<PipelineRing(1, 65, 3), PipelineRing(2, 30, 3)>>,
        <<PipelineRing(2, 30, 7)>>}

AlertAccounts == {1}

\* The dicts over the accounts with values in V.
Maps(V) == UNION {[S -> V] : S \in SUBSET AlertAccounts}

RiskScoreMaps == Maps({25, 30, 65, 90})

VelocityMaps == Maps({1, 5, 10, 15})

\* The arguments of the analyze calls: one argument varies at a time, and
\* two calls give alerts of every kind.
AnalyzeArguments ==
    {<<rings, EmptyMap, EmptyMap>> : rings \in AlertRings}
    \cup {<<(<<>>), scores, EmptyMap>> : scores \in RiskScoreMaps}
    \cup {<<(<<>>), EmptyMap, velocities>> : velocities \in VelocityMaps}
    \cup {<<(<<MembersRing(1, 85, 3), MembersRing(2, 50, 7)>>),
            [a \in AlertAccounts |-> 90], [a \in AlertAccounts |-> 10]>>,
          <<(<<PipelineRing(1, 40, 12)>>),
            [a \in AlertAccounts |-> 65], [a \in AlertAccounts |-> 15]>>}

\* AlertEngine.analyze_and_generate_alerts
AnalyzeAndGenerateAlerts(current_rings, risk_scores, velocities, ticking) ==
    /\ analyze_and_generate_alerts(current_rings, risk_scores, velocities, ticking)
    /\ UNCHANGED pipeline_vars

\* AlertEngine.add_alert, called with an alert its caller has just created.
AddAlert(alert_type, severity) ==
    /\ clock < MaxClock
    /\ LET made == Stamped(<<Alert(alert_type, severity, NoAccount, NoRing)>>,
                           clock, TRUE)
       IN /\ alerts' = add_alert(alerts, made[1])
          /\ clock' = ClockAfter(made, clock, TRUE)
    /\ UNCHANGED <<previous_state, last_call, calls, pipeline_vars>>

\* AlertEngine.acknowledge_alert
AcknowledgeAlert(alert_id) ==
    /\ alerts' = acknowledge_alert(alerts, alert_id)
    /\ UNCHANGED <<previous_state, last_call, calls, clock, pipeline_vars>>

\* AlertEngine.clear_alerts
ClearAlerts ==
    /\ alerts' = <<>>
    /\ UNCHANGED <<previous_state, last_call, calls, clock, pipeline_vars>>

AlertNext ==
    \/ \E arguments \in AnalyzeArguments, ticking \in BOOLEAN :
          AnalyzeAndGenerateAlerts(arguments[1], arguments[2], arguments[3],
                                   ticking)
    \/ AddAlert("VOLUME_ANOMALY", "LOW")
    \/ \E alert_id \in {alerts[i].id : i \in DOMAIN alerts}
                          \cup {<<"NEW_RING", 0>>} :
          AcknowledgeAlert(alert_id)
    \/ ClearAlerts

AlertSpec == Init /\ [][AlertNext]_vars

---------------------------------------------------------------------------
(* Properties of a completed detect-fraud run *)

HasRun == formatted_results # <<>>

\* The canonical response, the raw results and the engine of the last run.
Response == formatted_results[1]

RawResults == fraud_detection_results[1]

LastEngine == detector[1]

\* The accounts listed in suspicious_accounts of the canonical response.
Listed ==
    {Response.suspicious_accounts[i].account_id :
        i \in DOMAIN Response.suspicious_accounts}

\* The listed entry of an account.
EntryOf(a) ==
    Response.suspicious_accounts[
        CHOOSE i \in DOMAIN Response.suspicious_accounts :
            Response.suspicious_accounts[i].account_id = a]

\* Hubs and counterparties of the detected fan-in and fan-out patterns.
FanMembers ==
    UNION {{LastEngine.detected_fanin[k].receiver}
               \cup LastEngine.detected_fanin[k].senders :
           k \in DOMAIN LastEngine.detected_fanin}
    \cup UNION {{LastEngine.detected_fanout[k].sender}
                    \cup LastEngine.detected_fanout[k].receivers :
                k \in DOMAIN LastEngine.detected_fanout}

\* An account that receives from at least 15 distinct senders and has
\* out-degree at most 2.
MerchantShape(df, a) ==
    /\ Cardinality({df[i].s : i \in {j \in DOMAIN df : df[j].r = a}}) >= 15
    /\ out_degree(df, a) <= 2

\* An account that sends to at least 15 distinct receivers amounts whose
\* coefficient of variation is below 0.5.
PayrollShape(df, a) ==
    LET sent == SelectSeq(df, LAMBDA t : t.s = a)
    IN /\ Cardinality({sent[i].r : i \in DOMAIN sent}) >= 15
       /\ ConsistentAmounts([i \in DOMAIN sent |-> sent[i].amount])

\* C1: after a full pipeline run, no account of merchant shape (at least 15
\* distinct senders, out-degree at most 2) or payroll shape (at least 15
\* distinct receivers, consistent amounts) is listed in suspicious_accounts,
\* whatever the timing of its transactions.
C1_LegitimateShapesNotListed ==
    HasRun =>
        \A a \in NodeSet(transactions_df) :
            (MerchantShape(transactions_df, a) \/ PayrollShape(transactions_df, a))
                => a \notin Listed

\* C2: two runs over the same batch, neither cut short by the time budget,
\* give the same canonical response, whatever the order in which the cycles
\* are enumerated.
C2_SameBatchSameResponse ==
    [][(/\ HasRun
        /\ formatted_results' # <<>>
        /\ transactions_df' = transactions_df
        /\ ~LastEngine.timed_out
        /\ ~detector'[1].timed_out)
       => formatted_results' = formatted_results]_vars

\* The elementary cycles of the graph with lo..hi accounts, each written from
\* its least account: sequences of distinct accounts, every one paying the
\* next and the last paying the first.
ElementaryCycles(df, lo, hi) ==
    LET K == {a \in NodeSet(df) : in_degree(df, a) > 0 /\ out_degree(df, a) > 0}
    IN UNION {{c \in [1..L -> K] :
                  /\ \A i, j \in 1..L : i # j => c[i] # c[j]
                  /\ \A i \in 1..L : c[1] <= c[i]
                  /\ \A i \in 1..L : <<c[i], c[(i % L) + 1]>> \in Edges(df)}
              : L \in lo..hi}

\* A cycle rotated so that it starts at its least account.
LeastFirst(c) ==
    LET m == CHOOSE i \in DOMAIN c : \A j \in DOMAIN c : c[i] <= c[j]
    IN [i \in DOMAIN c |-> c[((m + i - 2) % Len(c)) + 1]]

\* C4: when the enumeration is not cut short, detect_cycles returns exactly
\* the elementary cycles of 3 to 5 accounts, none missing, none extra, each
\* once up to rotation.
C4_ExactlyTheCycles3To5 ==
    (HasRun /\ ~LastEngine.timed_out) =>
        LET found == LastEngine.detected_cycles
            found_set == {LeastFirst(found[k]) : k \in DOMAIN found}
        IN /\ found_set = ElementaryCycles(transactions_df, 3, 5)
           /\ Cardinality(found_set) = Len(found)

\* A complete enumeration that returned a cycle and left out a self-loop or a
\* 2-cycle of the graph.
C4_Witness ==
    /\ HasRun
    /\ ~LastEngine.timed_out
    /\ LastEngine.detected_cycles # <<>>
    /\ ElementaryCycles(transactions_df, 1, 2) # {}

\* C5: for the triangle A -> B (10:00), B -> C (11:00), C -> A (12:00), amount
\* 1000 each, the pipeline finds one cycle and builds exactly one ring, RING_001
\* of type cycle with members [A, B, C] and risk about 40, and A, B and C get
\* the same score, 40.0 or 48.0.
C5_TriangleOneRing ==
    (HasRun /\ transactions_df = RingBlock(3, 1) /\ ~LastEngine.timed_out) =>
        /\ Len(LastEngine.detected_cycles) = 1
        /\ Len(Response.fraud_rings) = 1
        /\ Response.fraud_rings[1].ring_id = 1
        /\ Response.fraud_rings[1].pattern_type = "cycle"
        /\ Response.fraud_rings[1].member_accounts = <<1, 2, 3>>
        /\ Response.fraud_rings[1].risk_score \in {400, 480}
        /\ \E s \in {400, 480} :
              \A a \in 1..3 : a \in Listed /\ EntryOf(a).suspicion_score = s

\* C6: for the path X -> sh1 -> sh2 -> sh3 -> Y with hourly rising timestamps,
\* detect_shell_chains(3, 3) reports exactly one chain, the pipeline builds
\* exactly one shell_chain ring, sh1, sh2 and sh3 score 20 and X and Y 0.
C6_PathOneChain ==
    (HasRun /\ transactions_df = PathBlock(5, TRUE)) =>
        /\ Len(LastEngine.detected_chains) = 1
        /\ Cardinality({k \in DOMAIN Response.fraud_rings :
              Response.fraud_rings[k].pattern_type = "shell_chain"}) = 1
        /\ \A a \in 2..4 : ScoreOf(RawResults.suspicious_accounts, a) = 200
        /\ \A a \in {1, 5} : ScoreOf(RawResults.suspicious_accounts, a) = 0

\* The place of a pattern type in the detection order.
PatternRank(pattern_type) ==
    CASE pattern_type = "cycle" -> 1
      [] pattern_type = "fan_in" -> 2
      [] pattern_type = "fan_out" -> 3
      [] pattern_type = "shell_chain" -> 4

\* C7 as stated: in the canonical response the ring ids follow the detection
\* order, cycle rings first, then fan-in, fan-out and shell-chain rings,
\* whatever the risk scores.
C7_IdsInDetectionOrder ==
    HasRun =>
        \A i, j \in DOMAIN Response.fraud_rings :
            i < j => PatternRank(Response.fraud_rings[i].pattern_type)
                        <= PatternRank(Response.fraud_rings[j].pattern_type)

\* C7: the ring ids RING_001, RING_002, ... of the canonical response follow
\* the rings' raw risk scores, highest first; only rings of equal risk keep
\* their detection order (cycles, fan-in, fan-out, shell chains).
C7_IdsByRiskThenDetectionOrder ==
    HasRun =>
        LET raw == RawResults.fraud_rings
            out == Response.fraud_rings
        IN /\ Len(out) = Len(raw)
           /\ \A i \in DOMAIN out :
                 /\ out[i].ring_id = i
                 /\ out[i].pattern_type = raw[i].pattern_type
           /\ \A i, j \in DOMAIN raw :
                 i < j =>
                    \/ raw[i].risk_sum * raw[j].member_count
                          > raw[j].risk_sum * raw[i].member_count
                    \/ /\ raw[i].risk_sum * raw[j].member_count
                            = raw[j].risk_sum * raw[i].member_count
                       /\ raw[i].ring_id < raw[j].ring_id
           /\ \A i, j \in DOMAIN raw :
                 raw[i].ring_id < raw[j].ring_id =>
                    PatternRank(raw[i].pattern_type) <= PatternRank(raw[j].pattern_type)

\* A response in which a ring detected later, of higher risk, has the smaller id.
C7_Witness ==
    /\ HasRun
    /\ \E i, j \in DOMAIN RawResults.fraud_rings :
          /\ i < j
          /\ RawResults.fraud_rings[i].ring_id > RawResults.fraud_rings[j].ring_id
          /\ PatternRank(Response.fraud_rings[i].pattern_type)
                > PatternRank(Response.fraud_rings[j].pattern_type)

\* C8: after a run every suspicion score and every ring risk score lies in
\* [0, 100], in the raw results and in the canonical response.
C8_ScoresWithinBounds ==
    HasRun =>
        /\ \A a \in DOMAIN RawResults.suspicious_accounts :
              /\ RawResults.suspicious_accounts[a].score >= 0
              /\ RawResults.suspicious_accounts[a].score <= 1000
        /\ \A i \in DOMAIN Response.suspicious_accounts :
              /\ Response.suspicious_accounts[i].suspicion_score >= 0
              /\ Response.suspicious_accounts[i].suspicion_score <= 1000
        /\ \A k \in DOMAIN RawResults.fraud_rings :
              /\ RawResults.fraud_rings[k].risk_sum >= 0
              /\ RawResults.fraud_rings[k].risk_sum
                    <= 1000 * RawResults.fraud_rings[k].member_count
        /\ \A k \in DOMAIN Response.fraud_rings :
              /\ Response.fraud_rings[k].risk_score >= 0
              /\ Response.fraud_rings[k].risk_score <= 1000

\* An account of three detected cycles (3 x 40 points) listed with score 100.
C8_Witness ==
    /\ HasRun
    /\ \E a \in Listed :
          /\ EntryOf(a).suspicion_score = 1000
          /\ Cardinality({k \in DOMAIN LastEngine.detected_cycles :
                a \in Range(LastEngine.detected_cycles[k])}) >= 3

\* C9: a whitelisted account that is no hub and no counterparty of a detected
\* fan-in or fan-out pattern ends with score 0, no pattern and level LOW, even
\* as a member of cycles or chains, and is not listed in suspicious_accounts.
C9_WhitelistedNonMemberZeroed ==
    HasRun =>
        \A a \in LastEngine.whitelisted_accounts \ FanMembers :
            /\ a \notin Listed
            /\ a \in DOMAIN RawResults.suspicious_accounts =>
                  /\ RawResults.suspicious_accounts[a].score = 0
                  /\ RawResults.suspicious_accounts[a].patterns = {}
                  /\ RawResults.suspicious_accounts[a].risk_level = "LOW"

\* A whitelisted account outside every fan pattern that belongs to a detected
\* cycle and has a score entry.
C9_Witness ==
    /\ HasRun
    /\ \E a \in LastEngine.whitelisted_accounts \ FanMembers :
          /\ a \in DOMAIN RawResults.suspicious_accounts
          /\ \E k \in DOMAIN LastEngine.detected_cycles :
                a \in Range(LastEngine.detected_cycles[k])

\* C10: suspicious_accounts is sorted by score descending, then account id
\* ascending, and no entry has score 0.
C10_SortedNoZero ==
    HasRun =>
        LET list == Response.suspicious_accounts
        IN /\ \A i \in DOMAIN list : list[i].suspicion_score # 0
           /\ \A i \in 1..(Len(list) - 1) :
                 \/ list[i].suspicion_score > list[i + 1].suspicion_score
                 \/ /\ list[i].suspicion_score = list[i + 1].suspicion_score
                    /\ list[i].account_id <= list[i + 1].account_id

\* A response that lists two accounts of equal score after one of a higher
\* score, from raw results that hold an account of score 0.
C10_Witness ==
    /\ HasRun
    /\ \E a \in DOMAIN RawResults.suspicious_accounts :
          RawResults.suspicious_accounts[a].score = 0
    /\ \E i \in 1..(Len(Response.suspicious_accounts) - 2) :
          /\ Response.suspicious_accounts[i].suspicion_score
                > Response.suspicious_accounts[i + 1].suspicion_score
          /\ Response.suspicious_accounts[i + 1].suspicion_score
                = Response.suspicious_accounts[i + 2].suspicion_score

\* The positions of the rings of the canonical response that list an account.
RingsListing(a) ==
    {k \in DOMAIN Response.fraud_rings :
        a \in Range(Response.fraud_rings[k].member_accounts)}

\* C11: in the canonical response the ring_id of every suspicious account is
\* the ring_id of the first entry of fraud_rings whose member_accounts holds
\* the account, and it is null exactly when no ring holds the account.
C11_RingIdOfFirstRing ==
    HasRun =>
        \A i \in DOMAIN Response.suspicious_accounts :
            LET entry == Response.suspicious_accounts[i]
                holding == RingsListing(entry.account_id)
            IN /\ (entry.ring_id = NoRing) <=> (holding = {})
               /\ holding # {} =>
                     /\ entry.ring_id \in holding
                     /\ \A k \in holding : entry.ring_id <= k
                     /\ Response.fraud_rings[entry.ring_id].ring_id = entry.ring_id

\* A listed account that two rings of the response hold, with the id of the
\* first of them.
C11_Witness ==
    /\ HasRun
    /\ \E i \in DOMAIN Response.suspicious_accounts :
          LET entry == Response.suspicious_accounts[i]
          IN /\ Cardinality(RingsListing(entry.account_id)) >= 2
             /\ entry.ring_id \in RingsListing(entry.account_id)

\* C12: after the full pipeline every account of a detected fan-in pattern
\* (the hub and each of its senders) and of a detected fan-out pattern (the
\* hub and each of its receivers) is listed in suspicious_accounts.
C12_FanMembersListed ==
    HasRun => FanMembers \subseteq Listed

\* The file of the last upload call has a negative amount.
HasNegativeAmount(raw) ==
    \E i \in DOMAIN raw.rows :
        raw.rows[i].amount_numeric /\ raw.rows[i].amount < 0

\* C18: an upload whose file has a negative amount is turned down with a
\* validation error (status 400) and no validated frame is stored from it;
\* an accepted file has only numeric amounts that are zero or more.
C18_NegativeAmountRejected ==
    \A k \in DOMAIN upload_response :
        LET raw == upload_response[k].request
        IN /\ HasNegativeAmount(raw) =>
                /\ upload_response[k].status = 400
                /\ transactions_df = <<>>
           /\ upload_response[k].status = 200 =>
                validate_amounts_non_negative(raw)

---------------------------------------------------------------------------
(* Properties of the alert engine *)

\* C3: when analyze_and_generate_alerts is called again with the arguments of
\* the call before it, the second call returns no alert and leaves the alert
\* history as it was.
C3_RepeatedCallSilent ==
    [][(/\ calls' = calls + 1
        /\ last_call # <<>>
        /\ last_call'[1].current_rings = last_call[1].current_rings
        /\ last_call'[1].risk_scores = last_call[1].risk_scores
        /\ last_call'[1].velocities = last_call[1].velocities)
       => (last_call'[1].returned = <<>> /\ alerts' = alerts)]_vars

\* The last analyze call: its arguments, the previous state it read and the
\* alerts it returned.
LastCall == last_call[1]

\* The alerts of one type among the returned ones, in order.
Returned(alert_type) ==
    SelectSeq(LastCall.returned, LAMBDA a : a.alert_type = alert_type)

\* The stated severity of a new ring of a risk score and a number of members.
StatedRingSeverity(risk_score, members) ==
    IF risk_score >= 80 \/ members >= 10 THEN "CRITICAL"
    ELSE IF risk_score >= 60 \/ members >= 7 THEN "HIGH"
    ELSE "MEDIUM"

\* C13: for ring records as the ring constructor produces them, the analyze
\* call returns exactly one NEW_RING alert per current ring whose id is not a
\* previous one, of severity CRITICAL when the ring's risk score is >= 80 or
\* it has >= 10 member accounts, HIGH when the score is >= 60 or it has >= 7
\* member accounts, MEDIUM otherwise.
C13_NewRingAlertPerNewRing ==
    (/\ last_call # <<>>
     /\ \A k \in DOMAIN LastCall.current_rings :
           "member_accounts" \in DOMAIN LastCall.current_rings[k]) =>
        LET new == SelectSeq(LastCall.current_rings,
                       LAMBDA ring : ring.ring_id \notin LastCall.previous_rings)
            got == Returned("NEW_RING")
        IN /\ Len(got) = Len(new)
           /\ \A k \in DOMAIN got :
                 /\ got[k].ring_id = new[k].ring_id
                 /\ got[k].severity =
                       StatedRingSeverity(new[k].risk_score,
                                          Len(new[k].member_accounts))

\* The stated severity of a risk spike.
StatedSpikeSeverity(spike, current_score) ==
    CASE spike >= 40 \/ current_score >= 80 -> "CRITICAL"
      [] spike < 40 /\ current_score < 80 /\ (spike >= 30 \/ current_score >= 60)
            -> "HIGH"
      [] OTHER -> "MEDIUM"

\* C14: the analyze call returns a RISK_SPIKE alert for an account exactly when
\* its current score minus its previous score (0 when absent) is >= 20, of
\* severity CRITICAL when the spike is >= 40 or the score >= 80, HIGH when the
\* spike is >= 30 or the score >= 60, MEDIUM otherwise.
C14_RiskSpikeExactlyFrom20 ==
    last_call # <<>> =>
        LET got == Returned("RISK_SPIKE")
            spike(a) == LastCall.risk_scores[a]
                        - (IF a \in DOMAIN LastCall.previous_scores
                           THEN LastCall.previous_scores[a] ELSE 0)
        IN /\ \A k \in DOMAIN got : got[k].account_id \in DOMAIN LastCall.risk_scores
           /\ \A a \in DOMAIN LastCall.risk_scores :
                 LET mine == {k \in DOMAIN got : got[k].account_id = a}
                 IN /\ Cardinality(mine) = (IF spike(a) >= 20 THEN 1 ELSE 0)
                    /\ \A k \in mine :
                          got[k].severity =
                             StatedSpikeSeverity(spike(a), LastCall.risk_scores[a])

\* A call that found an account at 65 that was at 30 before and returned one
\* RISK_SPIKE alert of severity HIGH for it.
C14_Witness ==
    /\ last_call # <<>>
    /\ \E a \in DOMAIN LastCall.risk_scores \cap DOMAIN LastCall.previous_scores :
          /\ LastCall.previous_scores[a] = 30
          /\ LastCall.risk_scores[a] = 65
          /\ \E k \in DOMAIN LastCall.returned :
                /\ LastCall.returned[k].alert_type = "RISK_SPIKE"
                /\ LastCall.returned[k].account_id = a
                /\ LastCall.returned[k].severity = "HIGH"

\* C15: the analyze call returns a VELOCITY_ANOMALY alert for an account
\* exactly when its previous velocity is > 0 and current / previous >= 5 or
\* current >= 10, or it has no previous velocity and current >= 10; every such
\* alert, for a new account too, is CRITICAL when the current velocity is
\* >= 15, HIGH when it is >= 10, MEDIUM otherwise.
C15_VelocityAnomalySeverity ==
    last_call # <<>> =>
        LET got == Returned("VELOCITY_ANOMALY")
            current(a) == LastCall.velocities[a]
            previous(a) == IF a \in DOMAIN LastCall.previous_velocities
                           THEN LastCall.previous_velocities[a] ELSE 0
            anomaly(a) == IF previous(a) > 0
                          THEN current(a) >= 5 * previous(a) \/ current(a) >= 10
                          ELSE current(a) >= 10
        IN \A a \in DOMAIN LastCall.velocities :
              LET mine == {k \in DOMAIN got : got[k].account_id = a}
              IN /\ Cardinality(mine) = (IF anomaly(a) THEN 1 ELSE 0)
                 /\ \A k \in mine :
                       got[k].severity =
                          (IF current(a) >= 15 THEN "CRITICAL"
                           ELSE IF current(a) >= 10 THEN "HIGH" ELSE "MEDIUM")

Reverse(seq) == [k \in DOMAIN seq |-> seq[Len(seq) + 1 - k]]

Prefix(seq, n) == SubSeq(seq, 1, Min(n, Len(seq)))

IdsOf(history) == [k \in DOMAIN history |-> history[k].id]

\* C16: the alert history never holds more than max_alerts alerts; an analyze
\* call puts the alerts it returns in front of it, the last created first,
\* and add_alert its alert, and what no longer fits is dropped from the tail;
\* acknowledge_alert keeps the alerts and their order, clear_alerts empties it.
C16_BoundedMostRecentFirst ==
    [][/\ Len(alerts') <= max_alerts
       /\ calls' = calls + 1 =>
             alerts' = Prefix(Reverse(last_call'[1].returned) \o alerts, max_alerts)
       /\ (calls' = calls /\ clock' # clock) =>
             /\ alerts' # <<>>
             /\ alerts'[1].id[2] = clock'
             /\ Tail(alerts') = Prefix(alerts, max_alerts - 1)
       /\ (calls' = calls /\ clock' = clock) =>
             \/ alerts' = <<>>
             \/ IdsOf(alerts') = IdsOf(alerts)]_vars

\* A full history whose first alerts are the last two a call returned, the
\* later one first, and whose oldest alert is not the first one ever created.
C16_Witness ==
    /\ last_call # <<>>
    /\ Len(alerts) = max_alerts
    /\ Len(LastCall.returned) >= 2
    /\ alerts[1].id = LastCall.returned[Len(LastCall.returned)].id
    /\ alerts[2].id = LastCall.returned[Len(LastCall.returned) - 1].id
    /\ alerts[max_alerts].id[2] > 1

\* C17: the ids of the alerts of the history are pairwise distinct, and
\* acknowledge_alert with the id of an alert of the history sets the
\* acknowledged flag of that alert and changes no other alert.
C17_AcknowledgeableById ==
    \A i \in DOMAIN alerts :
        /\ \A j \in DOMAIN alerts : j # i => alerts[j].id # alerts[i].id
        /\ acknowledge_alert(alerts, alerts[i].id)
              = [alerts EXCEPT ![i].acknowledged = TRUE]

---------------------------------------------------------------------------
(* Properties of the transaction graph *)

\* The ingested rows from sender to receiver.
RowsOfPair(sender, receiver) ==
    SelectSeq(Flatten(ingested), LAMBDA row : row.s = sender /\ row.r = receiver)

\* The transaction_count of the edges of a set of pairs, added up.
RECURSIVE CountOver(_, _)
CountOver(edges, pairs) ==
    IF pairs = {} THEN 0
    ELSE LET e == CHOOSE x \in pairs : TRUE
         IN edges[e].transaction_count + CountOver(edges, pairs \ {e})

\* The amounts of a sequence of rows.
AmountsOf(rows) == [i \in DOMAIN rows |-> rows[i].amount]

\* C19: once the graph is built, and after every add_transactions, for every
\* account the transaction_count of its outgoing edges adds up to the number
\* of ingested transactions it sent, and the amount of every edge is the sum
\* of the amounts of the ingested transactions of its pair; the edges are
\* exactly the pairs with an ingested transaction.
C19_EdgesAccountForIngested ==
    \A g \in DOMAIN transaction_graph :
        LET edges == transaction_graph[g].edges
            rows == Flatten(ingested)
        IN /\ DOMAIN edges = {<<rows[i].s, rows[i].r>> : i \in DOMAIN rows}
           /\ \A u \in Range(transaction_graph[g].nodes) :
                CountOver(edges, {e \in DOMAIN edges : e[1] = u})
                = Len(SelectSeq(rows, LAMBDA row : row.s = u))
           /\ \A e \in DOMAIN edges :
                edges[e].amount = SumSeq(AmountsOf(RowsOfPair(e[1], e[2])))

\* An add_transactions call has added to an edge that was there before,
\* and the edge has more than one transaction.
C19_Witness ==
    /\ Len(ingested) >= 2
    /\ \E e \in DOMAIN transaction_graph[1].edges :
        /\ transaction_graph[1].edges[e].transaction_count >= 2
        /\ \E i \in DOMAIN ingested[1] :
               <<ingested[1][i].s, ingested[1][i].r>> = e
        /\ \E i \in DOMAIN ingested[2] :
               <<ingested[2][i].s, ingested[2][i].r>> = e

---------------------------------------------------------------------------
(* Properties of the detection strategy *)

\* The pattern types of the rings of the results of a run.
RingTypes(results) ==
    {results.fraud_rings[i].pattern_type : i \in DOMAIN results.fraud_rings}

\* C20: a detection run under cycles_only reports no fan-in, fan-out or
\* shell-chain pattern or ring, one under fan_patterns no cycle and no shell
\* chain, one under shells_only no cycle and no fan pattern; and a
\* set-strategy call with an unknown strategy is answered with 400 and leaves
\* the strategy as it was.
C20_StrategySelectsDetectors ==
    [][/\ detector' # detector =>
            LET engine == detector'[1]
                types == RingTypes(fraud_detection_results'[1])
                cycles == engine.detected_cycles = <<>>
                          /\ "cycle" \notin types
                fans == engine.detected_fanin = <<>>
                        /\ engine.detected_fanout = <<>>
                        /\ types \cap {"fan_in", "fan_out"} = {}
                shells == engine.detected_chains = <<>>
                          /\ "shell_chain" \notin types
            IN /\ detection_strategy = "cycles_only" => fans /\ shells
               /\ detection_strategy = "fan_patterns" => cycles /\ shells
               /\ detection_strategy = "shells_only" => cycles /\ fans
       /\ (strategy_response' # strategy_response
           /\ strategy_response'[1].request \notin valid_strategies) =>
            /\ strategy_response'[1].status = 400
            /\ detection_strategy' = detection_strategy]_vars

---------------------------------------------------------------------------
(* Properties of the detection engine *)

\* The method of the last call made on an engine of its own ("" while none).
CalledMethod == IF engine_call = <<>> THEN "" ELSE engine_call[1].method

\* The cycles of 3 to 5 accounts among the first n of a sequence of cycles.
InRangeAmong(all_cycles, n) ==
    SelectSeq(SubSeq(all_cycles, 1, n), LAMBDA cycle : Len(cycle) \in 3..5)

\* Whether short is the beginning of long.
IsPrefix(short, long) ==
    Len(short) <= Len(long) /\ short = SubSeq(long, 1, Len(short))

\* C23: detect_cycles returns at most MAX_CYCLES_LIMIT cycles.  What it
\* returns is a beginning, in enumeration order, of the cycles of 3 to 5
\* accounts: all of those among the iterations that started within the time
\* budget, cut after the MAX_CYCLES_LIMIT-th.  A run of the whole detection
\* whose enumeration was cut short goes on with the cycles collected: every
\* one of them has its ring and its members their score entries.
C23_CappedPrefixReturned ==
    /\ CalledMethod = "detect_cycles" =>
         LET call == engine_call[1]
             started == Min(call.budget, Len(call.all_cycles))
             collected == InRangeAmong(call.all_cycles, started)
         IN /\ Len(call.returned) <= MAX_CYCLES_LIMIT
            /\ IsPrefix(call.returned,
                        InRangeAmong(call.all_cycles, Len(call.all_cycles)))
            /\ call.returned
                 = SubSeq(collected, 1, Min(MAX_CYCLES_LIMIT, Len(collected)))
    /\ CalledMethod = "run_full_detection" =>
         LET call == engine_call[1]
             cycles == call.returned.engine.detected_cycles
             rings == call.returned.results.fraud_rings
         IN /\ cycles = InRangeAmong(call.all_cycles,
                                     Min(call.budget, Len(call.all_cycles)))
            /\ \A k \in DOMAIN cycles :
                 /\ \E i \in DOMAIN rings :
                       /\ rings[i].pattern_type = "cycle"
                       /\ rings[i].member_accounts = cycles[k]
                 /\ \A a \in Range(cycles[k]) :
                       a \in DOMAIN call.returned.results.suspicious_accounts

\* A call that the limit cut short within the time budget, with cycles of
\* 3 to 5 accounts left to iterate.
C23_Witness ==
    /\ CalledMethod = "detect_cycles"
    /\ Len(engine_call[1].returned) = MAX_CYCLES_LIMIT
    /\ engine_call[1].budget = Len(engine_call[1].all_cycles)
    /\ Len(InRangeAmong(engine_call[1].all_cycles,
                        Len(engine_call[1].all_cycles))) > MAX_CYCLES_LIMIT

\* A run of the whole detection that the time budget cut short after it had
\* collected a cycle.
CutShortRun ==
    /\ CalledMethod = "run_full_detection"
    /\ engine_call[1].returned.engine.timed_out
    /\ engine_call[1].returned.engine.detected_cycles # <<>>
    /\ engine_call[1].returned.results.fraud_rings # <<>>

\* The rows of a frame to (fan-in) or from (fan-out) a hub whose timestamp
\* lies in the window that starts at hour t.
RowsInWindow(df, hub, t, hours, fan_in) ==
    SelectSeq(df, LAMBDA row :
        /\ (IF fan_in THEN row.r ELSE row.s) = hub
        /\ t <= row.ts /\ row.ts <= t + hours)

\* The counterparties of the hub in those rows.
PartiesInWindow(df, hub, t, hours, fan_in) ==
    LET rows == RowsInWindow(df, hub, t, hours, fan_in)
    IN {IF fan_in THEN rows[i].s ELSE rows[i].r : i \in DOMAIN rows}

\* The hours of the hub's transactions at which a window with at least
\* threshold counterparties starts.
WindowStarts(df, hub, threshold, hours, fan_in) ==
    {df[i].ts : i \in {j \in DOMAIN df :
        /\ (IF fan_in THEN df[j].r ELSE df[j].s) = hub
        /\ Cardinality(PartiesInWindow(df, hub, df[j].ts, hours, fan_in))
             >= threshold}}

\* What the claim states of the patterns of one direction: at most one per
\* hub, one exactly for the hubs with a window, and that pattern the one of
\* the earliest window.
StatedPatterns(df, patterns, threshold, hours, fan_in) ==
    LET hub_of(pattern) == IF fan_in THEN pattern.receiver ELSE pattern.sender
        parties_of(pattern) == IF fan_in THEN pattern.senders ELSE pattern.receivers
        hubs == {IF fan_in THEN df[i].r ELSE df[i].s : i \in DOMAIN df}
        starts(hub) == WindowStarts(df, hub, threshold, hours, fan_in)
    IN /\ \A i, j \in DOMAIN patterns :
            hub_of(patterns[i]) = hub_of(patterns[j]) => i = j
       /\ {hub_of(patterns[i]) : i \in DOMAIN patterns}
            = {hub \in hubs :
                 /\ Len(SelectSeq(df, LAMBDA row :
                        (IF fan_in THEN row.r ELSE row.s) = hub)) >= threshold
                 /\ starts(hub) # {}}
       /\ \A i \in DOMAIN patterns :
            LET hub == hub_of(patterns[i])
                t == CHOOSE x \in starts(hub) : \A y \in starts(hub) : x <= y
            IN /\ parties_of(patterns[i])
                    = PartiesInWindow(df, hub, t, hours, fan_in)
               /\ patterns[i].count
                    = Cardinality(PartiesInWindow(df, hub, t, hours, fan_in))
               /\ patterns[i].total_amount
                    = SumSeq(AmountsOf(RowsInWindow(df, hub, t, hours, fan_in)))

ShellPath(df, path, max_degree) ==
    /\ \A i, j \in DOMAIN path : path[i] = path[j] => i = j
    /\ \A i \in 1..(Len(path) - 1) : <<path[i], path[i + 1]>> \in Edges(df)
    /\ \A i \in 1..(Len(path) - 2) :
          EdgeTs(df, path[i], path[i + 1]) <= EdgeTs(df, path[i + 1], path[i + 2])
    /\ \A i \in 2..(Len(path) - 1) : total_degree(df, path[i]) <= max_degree

\* Whether short occurs in long as consecutive elements.
Occurs(short, long) ==
    \E offset \in 0..(Len(long) - Len(short)) :
        \A i \in DOMAIN short : long[offset + i] = short[i]

\* C25: detect_shell_chains reports every simple path of exactly min_length
\* accounts with non-decreasing edge timestamps and low-degree accounts
\* between its ends, whatever the degrees of the two ends.
C25_EveryShellPathReported ==
    CalledMethod = "detect_shell_chains" =>
        LET call == engine_call[1]
        IN \A path \in [1..call.min_length -> NodeSet(call.df)] :
              ShellPath(call.df, path, call.max_degree)
              => path \in Range(call.returned)

\* C26: every chain detect_shell_chains returns is a simple path of the
\* graph with non-decreasing edge timestamps and low-degree accounts between
\* its ends, has min_length to min_length + 2 accounts, and occurs in no
\* other returned chain as consecutive elements.
C26_ChainsWellFormed ==
    CalledMethod = "detect_shell_chains" =>
        LET call == engine_call[1]
            chains == call.returned
        IN /\ \A k \in DOMAIN chains :
                /\ ShellPath(call.df, chains[k], call.max_degree)
                /\ Len(chains[k]) >= call.min_length
                /\ Len(chains[k]) <= call.min_length + 2
           /\ \A j, k \in DOMAIN chains :
                j # k => ~Occurs(chains[j], chains[k])

\* A chain is returned from a frame in which a path of min_length accounts
\* runs through an account of more than max_degree edges.
C26_Witness ==
    /\ CalledMethod = "detect_shell_chains"
    /\ engine_call[1].returned # <<>>
    /\ \E path \in [1..engine_call[1].min_length -> NodeSet(engine_call[1].df)] :
          /\ engine_call[1].min_length >= 3
          /\ \A i \in 1..(Len(path) - 1) :
                <<path[i], path[i + 1]>> \in Edges(engine_call[1].df)
          /\ total_degree(engine_call[1].df, path[2]) > engine_call[1].max_degree

\* C28: the whitelist step of calculate_suspicion_scores never raises a
\* score: every account has, after the step, a score less than or equal to
\* the one it had just before it.
C28_WhitelistOnlySuppresses ==
    CalledMethod = "calculate_suspicion_scores" =>
        \A a \in DOMAIN engine_call[1].before_whitelist :
            engine_call[1].after_whitelist[a] <= engine_call[1].before_whitelist[a]

\* A whitelisted account holds an entry of score 0 when the step starts and
\* is listed with a positive score in what the method returns.
WhitelistedRaisedFromZero ==
    /\ CalledMethod = "calculate_suspicion_scores"
    /\ \E a \in engine_call[1].whitelisted_accounts :
          /\ a \in DOMAIN engine_call[1].before_whitelist
          /\ engine_call[1].before_whitelist[a] = 0
          /\ engine_call[1].returned[a].score > 0

---------------------------------------------------------------------------
(* Properties of the node metrics *)

\* What get_all_nodes_with_metrics exports, by account.
ExportedMetrics(graph, metrics) ==
    LET exported == get_all_nodes_with_metrics(graph, metrics)
    IN [account \in Range(graph.nodes) |->
          LET k == CHOOSE i \in DOMAIN exported : exported[i].id = account
          IN [total_transactions |-> exported[k].total_transactions,
              total_amount_sent |-> exported[k].total_amount_sent,
              total_amount_received |-> exported[k].total_amount_received,
              net_flow |-> exported[k].net_flow]]

\* C27: after build_from_dataframe(R1) and any add_transactions(R2), the
\* metrics of every account, as stored and as get_all_nodes_with_metrics
\* exports them, are those of build_from_dataframe over all the rows.
C27_IncrementalMetricsEqualRebuild ==
    \A g \in DOMAIN transaction_graph :
        LET rows == Flatten(ingested)
            rebuilt == build_from_dataframe(rows)
            rebuilt_metrics == calculate_node_metrics(rebuilt, rows)
        IN /\ node_metrics = rebuilt_metrics
           /\ ExportedMetrics(transaction_graph[g], node_metrics)
                  = ExportedMetrics(rebuilt, rebuilt_metrics)

\* An append has replaced the record of an account that occurs in both
\* batches.
AppendedToKnownAccount ==
    /\ Len(ingested) >= 2
    /\ NodeSet(ingested[1]) \cap NodeSet(ingested[2]) # {}

---------------------------------------------------------------------------
(* Properties of the detect-fraud pipeline *)

FailedAfterResponse ==
    /\ detect_response # <<>>
    /\ detect_response[1].status = 500
    /\ formatted_results # <<>>
    /\ fraud_detection_results = <<>>

\* C22: after a detect-fraud run, every account the detection engine
\* whitelisted has risk_score 0 and risk_level LOW in the records of the
\* risk engine.
C22_WhitelistedScoreZero ==
    \A i \in DOMAIN risk_intelligence_data :
    \A d \in DOMAIN detector :
    \A account \in detector[d].whitelisted_accounts :
        /\ risk_intelligence_data[i][account].risk_score = 0
        /\ risk_intelligence_data[i][account].risk_level = "LOW"

\* The NEW_RING alerts among those a call of the alert engine returned.
NewRingAlerts(call) ==
    Cardinality({k \in DOMAIN call.returned :
                    call.returned[k].alert_type = "NEW_RING"})

\* C29: a monitored run emits max(0, n_current - n_previous) NEW_RING
\* alerts, n being the number of rings of the run and of the monitored run
\* before it, whatever accounts the rings hold.
C29_NewRingsCountGrowth ==
    \A i \in DOMAIN last_call :
        NewRingAlerts(last_call[i])
            = Max(0, Len(last_call[i].current_rings)
                         - Cardinality(last_call[i].previous_rings))

\* A monitored run whose rings hold none of the accounts of the run before
\* it, which had rings too, and which emits no NEW_RING alert.
C29_Witness ==
    /\ last_call # <<>>
    /\ last_call[1].previous_rings # {}
    /\ last_call[1].current_rings # <<>>
    /\ \A k \in DOMAIN last_call[1].current_rings :
          Range(last_call[1].current_rings[k].member_accounts)
              \cap DOMAIN last_call[1].previous_scores = {}
    /\ NewRingAlerts(last_call[1]) = 0

\* C30: every velocity a monitored run hands to the alert engine is 0, no
\* VELOCITY_ANOMALY alert is emitted or kept, and the previous velocities
\* the engine stores are all 0.
C30_NoVelocityHandedOver ==
    /\ \A i \in DOMAIN last_call :
          /\ \A account \in DOMAIN last_call[i].velocities :
                last_call[i].velocities[account] = 0
          /\ \A k \in DOMAIN last_call[i].returned :
                last_call[i].returned[k].alert_type # "VELOCITY_ANOMALY"
    /\ \A account \in DOMAIN previous_state.velocities :
          previous_state.velocities[account] = 0
    /\ \A k \in DOMAIN alerts : alerts[k].alert_type # "VELOCITY_ANOMALY"

\* Two monitored runs were made, the last over accounts whose risk scores
\* are 10 or more, with a velocity handed over for each of them.
C30_Witness ==
    /\ calls >= 2
    /\ last_call # <<>>
    /\ DOMAIN last_call[1].velocities # {}
    /\ DOMAIN last_call[1].velocities = DOMAIN last_call[1].risk_scores
    /\ DOMAIN last_call[1].previous_velocities # {}
    /\ \A account \in DOMAIN last_call[1].risk_scores :
          last_call[1].risk_scores[account] >= 10
====
